---- MODULE Spec2Model ----
(***************************************************************************)
(* Group-control helpers of the well model                                 *)
(* (opm/simulators/wells/WellGroupHelpers.cpp).                            *)
(*                                                                         *)
(* The code computes with doubles.  The model computes with exact decimal  *)
(* rationals: a value is a record [n, d, k] standing for n / (d * 10^k),   *)
(* so that 1e-12 is [n |-> 1, d |-> 1, k |-> 12] and the sums, products,   *)
(* quotients and comparisons of the code are evaluated exactly.            *)
(***************************************************************************)
EXTENDS Integers, Sequences, FiniteSets, TLC

VARIABLES
    schedule,        \* Schedule at reportStepIdx: group tree, wells, declared controls
    wellState,       \* one WellStateFullyImplicitBlackoil per process
    guide_rate,       \* the GuideRate registry
    call             \* the last helper call: its name, arguments and result

vars == <<schedule, wellState, guide_rate, call>>

-----------------------------------------------------------------------------
(* Exact arithmetic standing for double arithmetic.                        *)

RECURSIVE GCD(_, _)
GCD(a, b) == IF b = 0 THEN a ELSE GCD(b, a % b)

Abs(i) == IF i < 0 THEN -i ELSE i

\* n / (d * 10^k), reduced; d > 0
R(n, d, k) ==
    IF n = 0 THEN [n |-> 0, d |-> 1, k |-> 0]
    ELSE LET g == GCD(Abs(n), Abs(d))
             s == IF d < 0 THEN -1 ELSE 1
         IN [n |-> s * (n \div g), d |-> s * (d \div g), k |-> k]

RInt(i) == R(i, 1, 0)
Zero == RInt(0)
One == RInt(1)

RNeg(a) == [a EXCEPT !.n = -a.n]

RAdd(a, b) ==
    IF a.n = 0 THEN b
    ELSE IF b.n = 0 THEN a
    ELSE LET k == IF a.k > b.k THEN a.k ELSE b.k
         IN R(a.n * b.d * (10 ^ (k - a.k)) + b.n * a.d * (10 ^ (k - b.k)), a.d * b.d, k)

RSub(a, b) == RAdd(a, RNeg(b))

RMul(a, b) == R(a.n * b.n, a.d * b.d, a.k + b.k)

\* a / b for b # 0
RDiv(a, b) == R(a.n * b.d, a.d * b.n, a.k - b.k)

\* p < q for p, q > 0: p.n * q.d * 10^(q.k - p.k) < q.n * p.d
PosLess(p, q) ==
    LET l == p.n * q.d
        r == q.n * p.d
        e == q.k - p.k
    IN IF l >= 1 /\ r >= 1 /\ e >= 10 THEN FALSE
       ELSE IF l >= 1 /\ r >= 1 /\ e <= -10 THEN TRUE
       ELSE IF e >= 0 THEN l * (10 ^ e) < r
       ELSE l < r * (10 ^ (-e))

RLess(a, b) ==
    IF a.n <= 0 /\ b.n > 0 THEN TRUE
    ELSE IF a.n < 0 /\ b.n = 0 THEN TRUE
    ELSE IF a.n >= 0 /\ b.n <= 0 THEN FALSE
    ELSE IF a.n > 0 THEN PosLess(a, b)
    ELSE PosLess(RNeg(b), RNeg(a))

RGreater(a, b) == RLess(b, a)
RLeq(a, b) == ~RLess(b, a)
REq(a, b) == ~RLess(a, b) /\ ~RLess(b, a)

\* std::max(a, b): (a < b) ? b : a
RMax(a, b) == IF RLess(a, b) THEN b ELSE a

\* the sum of a sequence of values, accumulated left to right from 0.0
SumSeq(s) ==
    LET acc[i \in 0..Len(s)] == IF i = 0 THEN Zero ELSE RAdd(acc[i - 1], s[i])
    IN acc[Len(s)]

\* the sum of f over a finite set
RECURSIVE SumOver(_, _)
SumOver(S, f) ==
    IF S = {} THEN Zero
    ELSE LET x == CHOOSE y \in S : TRUE
         IN RAdd(f[x], SumOver(S \ {x}, f))

\* the product of f over a finite set
RECURSIVE ProdOver(_, _)
ProdOver(S, f) ==
    IF S = {} THEN One
    ELSE LET x == CHOOSE y \in S : TRUE
         IN RMul(f[x], ProdOver(S \ {x}, f))

-----------------------------------------------------------------------------
(* The schedule: the group tree and the wells at the report step.          *)

FIELD == "FIELD"

\* the names of all groups of the schedule
Groups == DOMAIN schedule.parent

\* the names of all wells of the schedule
Wells == DOMAIN schedule.wellGroup

\* Schedule::hasWell(name, reportStepIdx)
hasWell(name) == name \in Wells

\* mutant of parentOfGroup: a group that is its own parent, a cycle in the tree
parentOfGroupMutantSelf(g) == g

\* Group::parent(): "" for FIELD
parentOfGroup(g) == schedule.parent[g]

\* Group::groups(): the child groups in the schedule's order
groups(g) == SelectSeq(schedule.groupOrder, LAMBDA c : schedule.parent[c] = g)

\* Group::wells(): the wells of the group in the schedule's order
wells(g) == SelectSeq(schedule.wellOrder, LAMBDA w : schedule.wellGroup[w] = g)

\* mutant of getGroupEfficiencyFactor: every group has factor 1
getGroupEfficiencyFactorMutantOne(g) == One

\* Group::getGroupEfficiencyFactor()
getGroupEfficiencyFactor(g) == schedule.gefac[g]

\* Well::getEfficiencyFactor()
getEfficiencyFactor(w) == schedule.wellEfac[w]

\* Well::isProducer() / Well::isInjector()
isProducer(w) == schedule.isProducer[w]
isInjector(w) == ~schedule.isProducer[w]

\* Well::getStatus()
getStatus(w) == schedule.status[w]

\* the range of a sequence
Range(s) == {s[i] : i \in 1..Len(s)}

\* the groups from g up to FIELD, g included
RECURSIVE GroupAncestors(_)
GroupAncestors(g) == IF g = FIELD THEN {FIELD} ELSE {g} \cup GroupAncestors(schedule.parent[g])

\* the wells of the subtree of g
SubtreeWells(g) == {w \in Wells : g \in GroupAncestors(schedule.wellGroup[w])}

-----------------------------------------------------------------------------
(* Rate aggregation.                                                       *)

\* mutant of wellIsOwned: every well of the map counts as owned
wellIsOwnedMutantAlways(ws, w) == TRUE

\* WellState::wellIsOwned(well_index, wellName)
wellIsOwned(ws, w) == w \in ws.owned

\* mutant of SkipWell: the status of the well is not looked at
SkipWellMutantNoShut(ws, w, injector) ==
    \/ w \notin ws.wellMap
    \/ ~wellIsOwned(ws, w)
    \/ (isProducer(w) /\ injector) \/ (isInjector(w) /\ ~injector)

\* a well of the group is skipped by one of the loop's "continue" conditions
SkipWell(ws, w, injector) ==
    \/ w \notin ws.wellMap                                         \* the well is not found
    \/ ~wellIsOwned(ws, w)                                         \* only sum once
    \/ (isProducer(w) /\ injector) \/ (isInjector(w) /\ ~injector) \* only count producers or injectors
    \/ getStatus(w) = "SHUT"

\* mutant of ScaleByGroup: the group's own factor is left out
ScaleByGroupMutantNoFactor(g, rate) == rate

\* the end of the traversal of a group: gefac * rate
ScaleByGroup(g, rate) == RMul(getGroupEfficiencyFactor(g), rate)

RECURSIVE sumWellPhaseRates(_, _, _, _, _)
sumWellPhaseRates(rates, g, ws, phasePos, injector) ==
    LET sub == groups(g)
        fromGroups[i \in 0..Len(sub)] ==
            IF i = 0 THEN Zero
            ELSE RAdd(fromGroups[i - 1],
                      sumWellPhaseRates(rates, sub[i], ws, phasePos, injector))
        ws_ == wells(g)
        rate[i \in 0..Len(ws_)] ==
            IF i = 0 THEN fromGroups[Len(sub)]
            ELSE LET w == ws_[i]
                     factor == getEfficiencyFactor(w)
                 IN IF SkipWell(ws, w, injector) THEN rate[i - 1]
                    ELSE IF injector
                         THEN RAdd(rate[i - 1], RMul(factor, rates[w][phasePos]))
                         ELSE RSub(rate[i - 1], RMul(factor, rates[w][phasePos]))
    IN ScaleByGroup(g, rate[Len(ws_)])

sumWellRates(g, ws, phasePos, injector) ==
    sumWellPhaseRates(ws.wellRates, g, ws, phasePos, injector)

sumWellResRates(g, ws, phasePos, injector) ==
    sumWellPhaseRates(ws.wellReservoirRates, g, ws, phasePos, injector)

RECURSIVE sumSolventRates(_, _, _)
sumSolventRates(g, ws, injector) ==
    LET sub == groups(g)
        fromGroups[i \in 0..Len(sub)] ==
            IF i = 0 THEN Zero
            ELSE RAdd(fromGroups[i - 1], sumSolventRates(sub[i], ws, injector))
        ws_ == wells(g)
        rate[i \in 0..Len(ws_)] ==
            IF i = 0 THEN fromGroups[Len(sub)]
            ELSE LET w == ws_[i]
                     factor == getEfficiencyFactor(w)
                 IN IF SkipWell(ws, w, injector) THEN rate[i - 1]
                    ELSE IF injector
                         THEN RAdd(rate[i - 1], RMul(factor, ws.solventWellRate[w]))
                         ELSE RSub(rate[i - 1], RMul(factor, ws.solventWellRate[w]))
    IN ScaleByGroup(g, rate[Len(ws_)])

-----------------------------------------------------------------------------
(* Control modes, group-controlled wells and the guide-rate registry.      *)

\* WellState::currentProductionGroupControl(group)
currentProductionGroupControl(ws, g) == ws.currentProductionGroupControl[g]

\* WellState::currentInjectionGroupControl(phase, group)
currentInjectionGroupControl(ws, phase, g) == ws.currentInjectionGroupControl[phase][g]

\* WellState::isProductionGrup(well) / WellState::isInjectionGrup(well)
isProductionGrup(ws, w) == w \in ws.productionGrup
isInjectionGrup(ws, w) == w \in ws.injectionGrup

\* GuideRate::has(name) / GuideRate::has(name, phase)
guideRateHas(name) == name \in guide_rate.has
guideRateHasPhase(name, phase) == <<name, phase>> \in guide_rate.hasInj

\* GuideRate::get(name, target, rates) / GuideRate::get(name, phase)
guideRateGet(name) == guide_rate.value[name]
guideRateGetPhase(name, phase) == guide_rate.injValue[name]

\* mutant of includedChildGroup: the always-included child is forgotten
includedChildGroupMutantNoAlways(ws, child_group, always_included_child, is_production_group, injection_phase) ==
    IF is_production_group
    THEN currentProductionGroupControl(ws, child_group) \in {"FLD", "NONE"}
    ELSE currentInjectionGroupControl(ws, injection_phase, child_group) \in {"FLD", "NONE"}

\* the "included" test of a child group
includedChildGroup(ws, child_group, always_included_child, is_production_group, injection_phase) ==
    \/ child_group = always_included_child
    \/ IF is_production_group
       THEN LET ctrl == currentProductionGroupControl(ws, child_group)
            IN ctrl = "FLD" \/ ctrl = "NONE"
       ELSE LET ctrl == currentInjectionGroupControl(ws, injection_phase, child_group)
            IN ctrl = "FLD" \/ ctrl = "NONE"

\* mutant of includedChildWell: the always-included child is forgotten
includedChildWellMutantNoAlways(ws, child_well, always_included_child, is_production_group) ==
    IF is_production_group THEN isProductionGrup(ws, child_well)
    ELSE isInjectionGrup(ws, child_well)

\* the "included" test of a child well
includedChildWell(ws, child_well, always_included_child, is_production_group) ==
    \/ child_well = always_included_child
    \/ IF is_production_group THEN isProductionGrup(ws, child_well)
       ELSE isInjectionGrup(ws, child_well)

RECURSIVE groupControlledWells(_, _, _, _, _)
groupControlledWells(ws, group_name, always_included_child, is_production_group, injection_phase) ==
    LET gs == groups(group_name)
        fromGroups[i \in 0..Len(gs)] ==
            IF i = 0 THEN 0
            ELSE IF includedChildGroup(ws, gs[i], always_included_child,
                                       is_production_group, injection_phase)
                 THEN fromGroups[i - 1]
                      + groupControlledWells(ws, gs[i], always_included_child,
                                             is_production_group, injection_phase)
                 ELSE fromGroups[i - 1]
        wl == wells(group_name)
        num_wells[i \in 0..Len(wl)] ==
            IF i = 0 THEN fromGroups[Len(gs)]
            ELSE IF includedChildWell(ws, wl[i], always_included_child, is_production_group)
                 THEN num_wells[i - 1] + 1
                 ELSE num_wells[i - 1]
    IN num_wells[Len(wl)]

-----------------------------------------------------------------------------
(* FractionCalculator.  fc is the calculator object: its well_state_,      *)
(* is_producer_ and injection_phase_ members.                              *)

guide_rate_epsilon == R(1, 1, 12)

\* FractionCalculator::parent
parent(name) ==
    IF hasWell(name) THEN schedule.wellGroup[name] ELSE parentOfGroup(name)

\* FractionCalculator::groupControlledWells
fcGroupControlledWells(fc, group_name, always_included_child) ==
    groupControlledWells(fc.well_state, group_name, always_included_child,
                         fc.is_producer, fc.injection_phase)

RECURSIVE guideRate(_, _, _)
RECURSIVE guideRateSum(_, _, _)

\* mutant of guideRate: a registered group guide rate is used even when the
\* group has no group-controlled wells
guideRateMutantRegisteredFirst(fc, name, always_included_child) ==
    IF hasWell(name) THEN guideRateGet(name)
    ELSE IF fc.is_producer /\ guideRateHas(name) THEN guideRateGet(name)
    ELSE IF ~fc.is_producer /\ guideRateHasPhase(name, fc.injection_phase)
         THEN guideRateGetPhase(name, fc.injection_phase)
    ELSE IF fcGroupControlledWells(fc, name, always_included_child) > 0
         THEN guideRateSum(fc, name, always_included_child)
    ELSE Zero

\* FractionCalculator::guideRate
guideRate(fc, name, always_included_child) ==
    IF hasWell(name) THEN guideRateGet(name)
    ELSE IF fcGroupControlledWells(fc, name, always_included_child) > 0
         THEN IF fc.is_producer /\ guideRateHas(name)
              THEN guideRateGet(name)
              ELSE IF ~fc.is_producer /\ guideRateHasPhase(name, fc.injection_phase)
                   THEN guideRateGetPhase(name, fc.injection_phase)
                   ELSE \* a group with default guide rate: accumulate the children's
                        guideRateSum(fc, name, always_included_child)
         ELSE \* no group-controlled subordinate wells
              Zero

\* FractionCalculator::guideRateSum
guideRateSum(fc, group, always_included_child) ==
    LET gs == groups(group)
        fromGroups[i \in 0..Len(gs)] ==
            IF i = 0 THEN Zero
            ELSE IF includedChildGroup(fc.well_state, gs[i], always_included_child,
                                       fc.is_producer, fc.injection_phase)
                 THEN RAdd(fromGroups[i - 1], guideRate(fc, gs[i], always_included_child))
                 ELSE fromGroups[i - 1]
        wl == wells(group)
        total_guide_rate[i \in 0..Len(wl)] ==
            IF i = 0 THEN fromGroups[Len(gs)]
            ELSE IF includedChildWell(fc.well_state, wl[i], always_included_child,
                                      fc.is_producer)
                 THEN RAdd(total_guide_rate[i - 1],
                           guideRate(fc, wl[i], always_included_child))
                 ELSE total_guide_rate[i - 1]
    IN total_guide_rate[Len(wl)]

\* the assertion of localFraction: total_guide_rate >= my_guide_rate
localFractionAssertion(fc, name, always_included_child) ==
    RLeq(guideRate(fc, name, always_included_child),
         guideRateSum(fc, parent(name), always_included_child))

\* localFraction divides: the ternary takes its first branch
localFractionDivides(fc, name, always_included_child) ==
    RGreater(guideRateSum(fc, parent(name), always_included_child), guide_rate_epsilon)

\* mutant of localFraction: the comparison with epsilon is >= instead of >
localFractionMutantGeq(fc, name, always_included_child) ==
    LET my_guide_rate == guideRate(fc, name, always_included_child)
        total_guide_rate == guideRateSum(fc, parent(name), always_included_child)
    IN IF ~RLess(total_guide_rate, guide_rate_epsilon)
       THEN RDiv(my_guide_rate, total_guide_rate)
       ELSE Zero

\* FractionCalculator::localFraction (the value of a build without assertions)
localFraction(fc, name, always_included_child) ==
    LET my_guide_rate == guideRate(fc, name, always_included_child)
        total_guide_rate == guideRateSum(fc, parent(name), always_included_child)
    IN IF RGreater(total_guide_rate, guide_rate_epsilon)
       THEN RDiv(my_guide_rate, total_guide_rate)
       ELSE Zero

\* the loop of FractionCalculator::fraction
RECURSIVE fractionLoop(_, _, _, _, _)
fractionLoop(fc, current, control_group_name, always, fraction_) ==
    IF current = control_group_name THEN fraction_
    ELSE fractionLoop(fc, parent(current), control_group_name, always,
                      RMul(fraction_, localFraction(fc, current, always)))

\* FractionCalculator::fraction
fraction(fc, name, control_group_name, always_include_this) ==
    fractionLoop(fc, name, control_group_name,
                 IF always_include_this THEN name ELSE "", One)

-----------------------------------------------------------------------------
(* The constraint checkers.  The target calculators are not part of this   *)
(* file; they are modelled for the rate modes: ORAT for production, RATE   *)
(* for injection.                                                          *)

\* PhaseUsage::phase_pos of the runs: water first, then oil, then gas
phase_pos(phase) == IF phase = "WATER" THEN 1 ELSE IF phase = "OIL" THEN 2 ELSE 3

\* TargetCalculator::TargetCalculator
TargetCalculator(cmode) == [cmode |-> cmode, pos |-> phase_pos("OIL")]

\* InjectionTargetCalculator::InjectionTargetCalculator
InjectionTargetCalculator(cmode, injection_phase) ==
    [cmode |-> cmode, pos |-> phase_pos(injection_phase)]

\* TargetCalculator::calcModeRateFromRates: the rate of the controlled phase
calcModeRateFromRates(tcalc, rates) == rates[tcalc.pos]

\* TargetCalculator::groupTarget: the declared oil rate target
groupTarget(tcalc, group) == schedule.oil_target[group]

\* InjectionTargetCalculator::groupTarget: the declared surface rate limit
groupTargetInj(tcalc, group) == schedule.surface_max_rate[group]

\* Group::productionGroupControlAvailable(): never for FIELD, else the
\* declared availability of the group for its parent's control
productionGroupControlAvailableMutantField(group) == schedule.prodAvailable[group]

productionGroupControlAvailable(group) ==
    IF group = FIELD THEN FALSE ELSE schedule.prodAvailable[group]

\* Group::injectionGroupControlAvailable(phase)
injectionGroupControlAvailable(group, phase) ==
    IF group = FIELD THEN FALSE ELSE schedule.injAvailable[group]

\* Group::isProductionGroup() / Group::isInjectionGroup()
isProductionGroup(group) == schedule.isProductionGroup[group]
isInjectionGroup(group) == schedule.isInjectionGroup[group]

\* WellState::currentProductionGroupReductionRates(group)
currentProductionGroupReductionRates(ws, group) == ws.productionReduction[group]

\* WellState::currentInjectionGroupReductionRates(group)
currentInjectionGroupReductionRates(ws, group) == ws.injectionReduction[group]

\* mutant of Reverse: the chain is returned as it was built
ReverseMutantIdentity(s) == s

\* std::reverse(chain.begin(), chain.end())
Reverse(s) == [i \in 1..Len(s) |-> s[Len(s) + 1 - i]]

\* the loop of groupChainTopBot: the names from parent up to top
RECURSIVE chainUpTo(_, _)
chainUpTo(p, top) ==
    IF p = top THEN <<p>> ELSE <<p>> \o chainUpTo(parentOfGroup(p), top)

\* groupChainTopBot: the chain from top down to bottom, top an ancestor of bottom
groupChainTopBot(bottom, top) == Reverse(<<bottom>> \o chainUpTo(parent(bottom), top))

\* guideRate->has(name) of the production check, has(name, phase) of the injection check
checkerGuideRateHas(fcalc, name) ==
    IF fcalc.is_producer THEN guideRateHas(name)
    ELSE guideRateHasPhase(name, fcalc.injection_phase)

\* the lambda localReduction
localReduction(fcalc, tcalc, group_name) ==
    calcModeRateFromRates(tcalc,
        IF fcalc.is_producer
        THEN currentProductionGroupReductionRates(fcalc.well_state, group_name)
        ELSE currentInjectionGroupReductionRates(fcalc.well_state, group_name))

\* mutant of local_reduction_level: always the top of the chain
local_reduction_levelMutantTop(fcalc, chain) == 0

\* the first loop over the chain: the last level ii (counted from 0) that is
\* the top or has a guide rate
local_reduction_level(fcalc, chain) ==
    LET num_ancestors == Len(chain) - 1
        level[n \in 0..num_ancestors] ==
            IF n = 0 THEN 0
            ELSE IF (n - 1 = 0) \/ checkerGuideRateHas(fcalc, chain[n])
                 THEN n - 1
                 ELSE level[n - 1]
    IN level[num_ancestors]

\* mutant of ownRateAddedBack: the rate of the checked name is never added back
ownRateAddedBackMutantNever(level, ii, current_rate, efficiencyFactorInclGroup) == Zero

\* what is added to the target at level ii for the checked name's own rate
ownRateAddedBack(level, ii, current_rate, efficiencyFactorInclGroup) ==
    IF level = ii THEN RMul(current_rate, efficiencyFactorInclGroup) ELSE Zero

\* the second loop over the chain: the target after all levels.  chain[ii + 1]
\* here is chain[ii] of the code, whose indices start at 0
walkTarget(fcalc, tcalc, name, chain, orig_target, current_rate, efficiencyFactorInclGroup) ==
    LET num_ancestors == Len(chain) - 1
        level == local_reduction_level(fcalc, chain)
        reduced(t, ii) ==
            IF (ii = 0) \/ checkerGuideRateHas(fcalc, chain[ii + 1])
            THEN RAdd(RSub(t, localReduction(fcalc, tcalc, chain[ii + 1])),
                      ownRateAddedBack(level, ii, current_rate, efficiencyFactorInclGroup))
            ELSE t
        restored(t, ii) ==
            IF /\ ii < num_ancestors - 1
               /\ groupControlledWells(fcalc.well_state, chain[ii + 2], "",
                                       fcalc.is_producer, fcalc.injection_phase) = 0
               /\ checkerGuideRateHas(fcalc, chain[ii + 2])
            THEN RAdd(t, localReduction(fcalc, tcalc, chain[ii + 2]))
            ELSE t
        target[n \in 0..num_ancestors] ==
            IF n = 0 THEN orig_target
            ELSE RMul(restored(reduced(target[n - 1], n - 1), n - 1),
                      localFraction(fcalc, chain[n + 1], name))
    IN target[num_ancestors]

\* mutant of flooredTargetRate: the target is not floored
flooredTargetRateMutantNoFloor(target, efficiencyFactorInclGroup) ==
    RDiv(target, efficiencyFactorInclGroup)

\* target_rate = std::max(1e-12, target / efficiencyFactorInclGroup)
flooredTargetRate(target, efficiencyFactorInclGroup) ==
    RMax(R(1, 1, 12), RDiv(target, efficiencyFactorInclGroup))

\* the pair returned where the check stops without a target: (false, 1)
Unconstrained(why, group) ==
    [ret |-> why, at |-> group, violated |-> FALSE, scale |-> One]

\* mutant of Checked: the scale is the inverse quotient
CheckedMutantInverse(top, efficiencyFactorInclGroup, target, target_rate, current_rate) ==
    [ret |-> "target", top |-> top,
     efficiencyFactorInclGroup |-> efficiencyFactorInclGroup,
     target |-> target, target_rate |-> target_rate,
     current_rate |-> current_rate,
     violated |-> RGreater(current_rate, target_rate),
     scale |-> IF current_rate.n = 0 THEN "inf" ELSE RDiv(current_rate, target_rate)]

\* the pair returned by the last line: (current_rate > target_rate,
\* target_rate / current_rate); the quotient by a zero current rate is infinite
Checked(top, efficiencyFactorInclGroup, target, target_rate, current_rate) ==
    [ret |-> "target", top |-> top,
     efficiencyFactorInclGroup |-> efficiencyFactorInclGroup,
     target |-> target, target_rate |-> target_rate,
     current_rate |-> current_rate,
     violated |-> RGreater(current_rate, target_rate),
     scale |-> IF current_rate.n = 0 THEN "inf" ELSE RDiv(target_rate, current_rate)]

\* schedule.getGroup of a name that is no group throws
NoSuchGroup(group_name) == [ret |-> "no_such_group", group |-> group_name]

RECURSIVE checkGroupConstraintsProd(_, _, _, _, _, _)
checkGroupConstraintsProd(name, parentName, group, ws, rates, efficiencyFactor) ==
    LET currentGroupControl == currentProductionGroupControl(ws, group)
    IN IF currentGroupControl = "FLD" \/ currentGroupControl = "NONE"
       THEN IF ~productionGroupControlAvailable(group)
            THEN Unconstrained("unavailable", group)
            ELSE IF parentOfGroup(group) \notin Groups
                 THEN NoSuchGroup(parentOfGroup(group))
                 ELSE checkGroupConstraintsProd(name, parentName, parentOfGroup(group), ws,
                          rates, RMul(efficiencyFactor, getGroupEfficiencyFactor(group)))
       ELSE IF ~isProductionGroup(group)
            THEN Unconstrained("no_controls", group)
            ELSE LET tcalc == TargetCalculator(currentGroupControl)
                     fcalc == [well_state |-> ws, is_producer |-> TRUE,
                               injection_phase |-> "OIL"]
                     orig_target == groupTarget(tcalc, group)
                     current_rate == RNeg(calcModeRateFromRates(tcalc, rates))
                     chain == groupChainTopBot(name, group)
                     efficiencyFactorInclGroup ==
                         RMul(efficiencyFactor, getGroupEfficiencyFactor(group))
                     target == walkTarget(fcalc, tcalc, name, chain, orig_target,
                                          current_rate, efficiencyFactorInclGroup)
                 IN Checked(group, efficiencyFactorInclGroup, target,
                            flooredTargetRate(target, efficiencyFactorInclGroup),
                            current_rate)

RECURSIVE checkGroupConstraintsInj(_, _, _, _, _, _, _)
checkGroupConstraintsInj(name, parentName, group, ws, rates, injectionPhase, efficiencyFactor) ==
    LET currentGroupControl == currentInjectionGroupControl(ws, injectionPhase, group)
    IN IF currentGroupControl = "FLD" \/ currentGroupControl = "NONE"
       THEN IF ~injectionGroupControlAvailable(group, injectionPhase)
            THEN Unconstrained("unavailable", group)
            ELSE IF parentOfGroup(group) \notin Groups
                 THEN NoSuchGroup(parentOfGroup(group))
                 ELSE checkGroupConstraintsInj(name, parentName, parentOfGroup(group), ws,
                          rates, injectionPhase,
                          RMul(efficiencyFactor, getGroupEfficiencyFactor(group)))
       ELSE IF ~isInjectionGroup(group)
            THEN Unconstrained("no_controls", group)
            ELSE LET tcalc == InjectionTargetCalculator(currentGroupControl, injectionPhase)
                     fcalc == [well_state |-> ws, is_producer |-> FALSE,
                               injection_phase |-> injectionPhase]
                     orig_target == groupTargetInj(tcalc, group)
                     current_rate == calcModeRateFromRates(tcalc, rates)
                     chain == groupChainTopBot(name, group)
                     efficiencyFactorInclGroup ==
                         RMul(efficiencyFactor, getGroupEfficiencyFactor(group))
                     target == walkTarget(fcalc, tcalc, name, chain, orig_target,
                                          current_rate, efficiencyFactorInclGroup)
                 IN Checked(group, efficiencyFactorInclGroup, target,
                            flooredTargetRate(target, efficiencyFactorInclGroup),
                            current_rate)

-----------------------------------------------------------------------------
(* Inputs of the rate aggregation.                                         *)

\* the number of active phases of the run (2 or 3)
NumPhases == 2
PhasePositions == 1..NumPhases

\* the stored rates are drawn as multiples 1..MaxRateLevel of a base magnitude
MaxRateLevel == 2

Procs == {"p1", "p2"}

GroupNames == {"FIELD", "G1", "G2"}
WellNames == {"W1", "W2"}

\* efficiency factors: all 1, or pairwise different so that every product of
\* factors along a chain identifies the chain
EfacChoices ==
    {[g |-> [FIELD |-> One, G1 |-> One, G2 |-> One],
      w |-> [W1 |-> One, W2 |-> One]],
     [g |-> [FIELD |-> R(1, 2, 0), G1 |-> R(1, 3, 0), G2 |-> R(1, 5, 0)],
      w |-> [W1 |-> R(1, 7, 0), W2 |-> R(9, 1, 1)]]}

\* base magnitude of the rate of well w in phase position p
BaseRate(w, p) == IF w = "W1" THEN 2 * p + 1 ELSE 2 * p + 9

\* stored well rates: negative for producers, positive for injectors
StoredRates(isProd, level) ==
    [w \in WellNames |->
        [p \in PhasePositions |->
            RInt((IF isProd[w] THEN -1 ELSE 1) * level * BaseRate(w, p))]]

\* the schedules of the rate-aggregation runs: G2 under FIELD (in either order
\* with its sibling G1) or under G1; at most one well shut
SumSchedules ==
    {[parent |-> t.parent, groupOrder |-> t.order, wellOrder |-> <<"W1", "W2">>,
      gefac |-> e.g, wellEfac |-> e.w,
      wellGroup |-> wg, isProducer |-> ip, status |-> st] :
        t \in {[parent |-> [FIELD |-> "", G1 |-> "FIELD", G2 |-> "FIELD"],
                order |-> <<"G1", "G2">>],
               [parent |-> [FIELD |-> "", G1 |-> "FIELD", G2 |-> "FIELD"],
                order |-> <<"G2", "G1">>],
               [parent |-> [FIELD |-> "", G1 |-> "FIELD", G2 |-> "G1"],
                order |-> <<"G1", "G2">>]},
        e \in EfacChoices,
        wg \in {f \in [WellNames -> GroupNames] : f["W2"] # "FIELD"},
        ip \in [WellNames -> BOOLEAN],
        st \in {f \in [WellNames -> {"OPEN", "SHUT"}] : \E w \in WellNames : f[w] = "OPEN"}}

\* where a well lives: in no state map; owned by p1 alone; owned by p2 and
\* absent from p1; owned by p2 and also held (not owned) by p1
Placements ==
    {[owner |-> "nobody", present |-> {}],
     [owner |-> "p1", present |-> {"p1"}],
     [owner |-> "p2", present |-> {"p2"}],
     [owner |-> "p2", present |-> {"p1", "p2"}]}

\* the well state of process p: rates are held for the wells of its map only
SumWellState(p, place, rates) ==
    LET wmap == {w \in WellNames : p \in place[w].present}
    IN [wellMap |-> wmap,
        owned |-> {w \in WellNames : place[w].owner = p},
        wellRates |-> [w \in wmap |-> rates[w]],
        wellReservoirRates |-> [w \in wmap |-> rates[w]],
        solventWellRate |-> [w \in wmap |-> rates[w][1]]]

NoCall == [op |-> "none"]

InitSum ==
    /\ schedule \in SumSchedules
    /\ \E place \in [WellNames -> Placements],
          level \in 1..MaxRateLevel :
          wellState = [p \in Procs |->
                          SumWellState(p, place, StoredRates(schedule.isProducer, level))]
    /\ guide_rate = [has |-> {}]
    /\ call = NoCall

\* a process calls sumWellRates for a group
CallSumWellRates(p, g, phasePos, injector) ==
    /\ call = NoCall
    /\ call' = [op |-> "sumWellRates", proc |-> p, group |-> g, phasePos |-> phasePos,
                injector |-> injector,
                result |-> sumWellRates(g, wellState[p], phasePos, injector)]
    /\ UNCHANGED <<schedule, wellState, guide_rate>>

\* a process calls sumSolventRates for a group
CallSumSolventRates(p, g, injector) ==
    /\ call = NoCall
    /\ call' = [op |-> "sumSolventRates", proc |-> p, group |-> g,
                injector |-> injector,
                result |-> sumSolventRates(g, wellState[p], injector)]
    /\ UNCHANGED <<schedule, wellState, guide_rate>>

NextSum ==
    \/ \E p \in Procs, g \in Groups, phasePos \in PhasePositions, injector \in BOOLEAN :
          CallSumWellRates(p, g, phasePos, injector)
    \/ \E p \in Procs, g \in Groups, injector \in BOOLEAN :
          CallSumSolventRates(p, g, injector)

SpecSum == InitSum /\ [][NextSum]_vars

-----------------------------------------------------------------------------
(* Claims about the rate aggregation.                                      *)

\* the wells the aggregation counts for a role in the state ws: in the state
\* map, owned by the process, of the requested role and not shut
Counted(ws, injector) ==
    {w \in Wells : /\ w \in ws.wellMap
                   /\ w \in ws.owned
                   /\ isInjector(w) = injector
                   /\ getStatus(w) # "SHUT"}

\* the signed, efficiency-weighted contribution of a well: an injector's
\* rate is added, a producer's is subtracted
Contribution(w, rate, injector) ==
    LET v == RMul(getEfficiencyFactor(w), rate)
    IN IF injector THEN v ELSE RNeg(v)

\* the product of the efficiency factors of the groups from the well's
\* parent group up to and including FIELD
ChainFactor(w) ==
    ProdOver(GroupAncestors(schedule.wellGroup[w]), schedule.gefac)

\* the sum over the counted wells of the tree of the contribution of each,
\* scaled by the factors of its ancestor chain
FlatFieldSum(ws, phasePos, injector) ==
    LET C == Counted(ws, injector)
    IN SumOver(C, [w \in C |->
                    RMul(ChainFactor(w), Contribution(w, ws.wellRates[w][phasePos], injector))])

\* C1: sumWellRates on FIELD equals the sum over the counted leaf wells of the
\* well's (sign-normalised) rate times its own efficiency factor times the
\* factors of all groups from its parent up to and including FIELD, whatever
\* the order in which the schedule lists the child groups.
C1_FieldSumIsFlatSum ==
    (call.op = "sumWellRates" /\ call.group = FIELD)
        => REq(call.result,
               FlatFieldSum(wellState[call.proc], call.phasePos, call.injector))

\* C1 witness: sumWellRates on FIELD has been called and a counted well sits
\* two levels below FIELD under groups with factors other than 1.
C1_Witness ==
    /\ call.op = "sumWellRates" /\ call.group = FIELD
    /\ \E w \in Counted(wellState[call.proc], call.injector) :
          /\ schedule.wellGroup[w] = "G2" /\ schedule.parent["G2"] = "G1"
          /\ ~REq(ChainFactor(w), One)
    /\ call.result.n # 0

\* the direct wells of a group
DirectWells(g) == {w \in Wells : schedule.wellGroup[w] = g}

\* the child groups of a group
ChildGroups(g) == {c \in Groups : schedule.parent[c] = g}

\* C2: in sumWellPhaseRates and sumSolventRates a directly owned well
\* contributes iff it is in the state map, owned by the process, of the
\* requested role and not SHUT; an included injector's efficiency-weighted
\* rate is added and an included producer's subtracted; a well missing from
\* the state map is skipped (no rate of it is read).  The result for a group
\* is its factor times the children's results plus those contributions.
C2_WellIncludedIff ==
    /\ call.op = "sumWellRates" =>
         LET ws == wellState[call.proc]
             g == call.group
             D == DirectWells(g) \cap Counted(ws, call.injector)
             K == ChildGroups(g)
         IN REq(call.result,
                RMul(getGroupEfficiencyFactor(g),
                     RAdd(SumOver(K, [c \in K |->
                                sumWellRates(c, ws, call.phasePos, call.injector)]),
                          SumOver(D, [w \in D |->
                                Contribution(w, ws.wellRates[w][call.phasePos],
                                             call.injector)]))))
    /\ call.op = "sumSolventRates" =>
         LET ws == wellState[call.proc]
             g == call.group
             D == DirectWells(g) \cap Counted(ws, call.injector)
             K == ChildGroups(g)
         IN REq(call.result,
                RMul(getGroupEfficiencyFactor(g),
                     RAdd(SumOver(K, [c \in K |-> sumSolventRates(c, ws, call.injector)]),
                          SumOver(D, [w \in D |->
                                Contribution(w, ws.solventWellRate[w], call.injector)]))))

\* C2 witness: a producer sum over a group that directly owns a well missing
\* from the state map and an included producer.
C2_Witness ==
    /\ call.op \in {"sumWellRates", "sumSolventRates"}
    /\ ~call.injector
    /\ \E w \in DirectWells(call.group) : w \notin wellState[call.proc].wellMap
    /\ \E w \in DirectWells(call.group) :
          w \in Counted(wellState[call.proc], FALSE)
    /\ call.result.n > 0

\* every well is owned by exactly one process
EveryWellOwnedOnce ==
    \A w \in Wells : Cardinality({p \in Procs : w \in wellState[p].owned}) = 1

\* the well state of a single process that holds and owns all wells
SingleProcessState ==
    LET holder(w) == CHOOSE p \in Procs : w \in wellState[p].wellMap
    IN [wellMap |-> Wells,
        owned |-> Wells,
        wellRates |-> [w \in Wells |-> wellState[holder(w)].wellRates[w]],
        wellReservoirRates |-> [w \in Wells |-> wellState[holder(w)].wellReservoirRates[w]],
        solventWellRate |-> [w \in Wells |-> wellState[holder(w)].solventWellRate[w]]]

\* C3: with every well owned by exactly one process (and possibly held by
\* more), the per-process results of sumWellRates for a group add up to the
\* result of a single process owning all wells.
C3_OwnedOnceSumsOnce ==
    (call.op = "sumWellRates" /\ EveryWellOwnedOnce)
        => REq(SumOver(Procs, [p \in Procs |->
                    sumWellRates(call.group, wellState[p], call.phasePos, call.injector)]),
               sumWellRates(call.group, SingleProcessState, call.phasePos, call.injector))

\* C3 witness: a counted well is held by both processes, another one is
\* owned by the other process, and both processes have a nonzero result.
C3_Witness ==
    /\ call.op = "sumWellRates" /\ EveryWellOwnedOnce
    /\ \E w \in Wells : \A p \in Procs : w \in wellState[p].wellMap
    /\ \A p \in Procs :
          sumWellRates(call.group, wellState[p], call.phasePos, call.injector).n # 0

-----------------------------------------------------------------------------
(* Inputs of the fraction calculator.                                      *)

\* the well guide rates are drawn from 0..MaxGuideRate times the scale
MaxGuideRate == 2

\* the guide rates of a run are multiples of 1, of 1e-12 or of 1e-13
GuideRateExponents == {0, 12, 13}

InjectionPhases == {"WATER", "OIL", "GAS"}

\* the process that runs the calculator
ThisProc == "p1"

\* the injection control mode standing at the place of a production mode
InjectionMode(m) == IF m = "ORAT" THEN "RATE" ELSE m

\* schedules of the fraction runs: G2 under G1 or beside it, the wells in G1
\* or G2; efficiency factors, roles and status are not read
FracSchedules ==
    {[parent |-> [FIELD |-> "", G1 |-> "FIELD", G2 |-> p2],
      groupOrder |-> <<"G1", "G2">>, wellOrder |-> <<"W1", "W2">>,
      gefac |-> [g \in GroupNames |-> One], wellEfac |-> [w \in WellNames |-> One],
      wellGroup |-> wg, isProducer |-> [w \in WellNames |-> TRUE],
      status |-> [w \in WellNames |-> "OPEN"]] :
        p2 \in {"FIELD", "G1"},
        wg \in {f \in [WellNames -> {"G1", "G2"}] : ~(f["W1"] = "G1" /\ f["W2"] = "G2")}}

\* a well state holding the control modes cm of the groups and the set grup
\* of wells under group control, for production and for injection alike
ControlWellState(cm, grup) ==
    [wellMap |-> WellNames,
     owned |-> WellNames,
     currentProductionGroupControl |-> cm,
     currentInjectionGroupControl |->
         [ph \in InjectionPhases |-> [g \in DOMAIN cm |-> InjectionMode(cm[g])]],
     productionGrup |-> grup,
     injectionGrup |-> grup]

\* a registry with the groups reg registered; values are mantissa * 10^-k
Registry(reg, m1, m2, k) ==
    [has |-> reg,
     hasInj |-> reg \X InjectionPhases,
     value |-> [W1 |-> R(m1, 1, k), W2 |-> R(m2, 1, k),
                G1 |-> R(2, 1, k), G2 |-> R(5, 1, k), FIELD |-> R(7, 1, k)],
     injValue |-> [G1 |-> R(2, 1, k), G2 |-> R(5, 1, k), FIELD |-> R(7, 1, k)]]

InitFrac ==
    /\ schedule \in FracSchedules
    /\ \E c1 \in {"NONE", "ORAT"}, c2 \in {"FLD", "ORAT"}, grup \in SUBSET WellNames :
          wellState = [p \in Procs |->
              ControlWellState([FIELD |-> "NONE", G1 |-> c1, G2 |-> c2], grup)]
    /\ \E reg \in {{}, {"G2"}, {"G1", "G2"}}, m1 \in 0..MaxGuideRate, m2 \in {0, 1},
          k \in GuideRateExponents :
          guide_rate = Registry(reg, m1, m2, k)
    /\ call = NoCall

\* the calculator of a production check or of an injection check
Calculator(is_producer) ==
    [well_state |-> wellState[ThisProc], is_producer |-> is_producer,
     injection_phase |-> IF is_producer THEN "OIL" ELSE "WATER"]

\* the strict ancestors of a well or group
StrictAncestors(name) == IF name = FIELD THEN {} ELSE GroupAncestors(parent(name))

\* the names a call may keep always included: none, the name itself, or the
\* well W1 (the well a constraint check is made for)
AlwaysChoices(name) == {"", name, "W1"}

CallGuideRate(is_producer, name, always_included_child) ==
    /\ call = NoCall
    /\ call' = [op |-> "guideRate", is_producer |-> is_producer, name |-> name,
                always |-> always_included_child,
                result |-> guideRate(Calculator(is_producer), name, always_included_child)]
    /\ UNCHANGED <<schedule, wellState, guide_rate>>

CallLocalFraction(is_producer, name, always_included_child) ==
    /\ call = NoCall
    /\ name # FIELD
    /\ call' = [op |-> "localFraction", is_producer |-> is_producer, name |-> name,
                always |-> always_included_child,
                asserted |-> localFractionAssertion(Calculator(is_producer), name,
                                                    always_included_child),
                divided |-> localFractionDivides(Calculator(is_producer), name,
                                                 always_included_child),
                result |-> localFraction(Calculator(is_producer), name,
                                         always_included_child)]
    /\ UNCHANGED <<schedule, wellState, guide_rate>>

CallFraction(is_producer, name, control_group_name, always_include_this) ==
    /\ call = NoCall
    /\ name # FIELD
    /\ control_group_name \in StrictAncestors(name)
    /\ call' = [op |-> "fraction", is_producer |-> is_producer, name |-> name,
                control_group |-> control_group_name,
                always_include |-> always_include_this,
                result |-> fraction(Calculator(is_producer), name, control_group_name,
                                    always_include_this)]
    /\ UNCHANGED <<schedule, wellState, guide_rate>>

NextFrac ==
    \/ \E is_producer \in BOOLEAN, name \in Groups \cup Wells :
          \E always \in AlwaysChoices(name) : CallGuideRate(is_producer, name, always)
    \/ \E is_producer \in BOOLEAN, name \in Groups \cup Wells :
          \E always \in AlwaysChoices(name) : CallLocalFraction(is_producer, name, always)
    \/ \E is_producer \in BOOLEAN, name \in Groups \cup Wells, cg \in Groups,
          always \in BOOLEAN : CallFraction(is_producer, name, cg, always)

SpecFrac == InitFrac /\ [][NextFrac]_vars

-----------------------------------------------------------------------------
(* Claims about the fraction calculator.                                   *)

\* the child (well or group) is eligible at its parent's level: a well under
\* group control, a group whose current control is FLD or NONE, or the
\* always-included child
Eligible(fc, child, always) ==
    \/ child = always
    \/ /\ child \in Wells
       /\ IF fc.is_producer THEN child \in fc.well_state.productionGrup
          ELSE child \in fc.well_state.injectionGrup
    \/ /\ child \in Groups
       /\ LET ctrl == IF fc.is_producer
                      THEN fc.well_state.currentProductionGroupControl[child]
                      ELSE fc.well_state.currentInjectionGroupControl[fc.injection_phase][child]
          IN ctrl \in {"FLD", "NONE"}

\* the eligible children of a group
EligibleChildren(fc, g, always) ==
    {c \in ChildGroups(g) \cup DirectWells(g) : Eligible(fc, c, always)}

\* the names from name up to, and without, the group top
ChainBelow(name, top) ==
    {name} \cup {g \in StrictAncestors(name) : top \in StrictAncestors(g)}

InUnitInterval(x) == RLeq(Zero, x) /\ RLeq(x, One)

C8_LocalFractionsSumToOne ==
    call.op = "localFraction" =>
        LET fc == Calculator(call.is_producer)
            g == parent(call.name)
            E == EligibleChildren(fc, g, call.always)
            total == guideRateSum(fc, g, call.always)
        IN IF RGreater(total, guide_rate_epsilon)
           THEN REq(SumOver(E, [c \in E |-> localFraction(fc, c, call.always)]), One)
           ELSE \A c \in E : localFraction(fc, c, call.always).n = 0

\* C8 witness: a group with two eligible children of nonzero fraction, one of
\* them a child group.
C8_Witness ==
    /\ call.op = "localFraction"
    /\ LET fc == Calculator(call.is_producer)
           E == EligibleChildren(fc, parent(call.name), call.always)
       IN /\ Cardinality(E) >= 2
          /\ E \cap Groups # {}
          /\ \A c \in E : localFraction(fc, c, call.always).n # 0

\* C9 as claimed: 0 without a division when the sum is below 1e-12,
\* otherwise the child's guide rate divided by the sum.
C9_ZeroBelowEpsilon ==
    call.op = "localFraction" =>
        LET fc == Calculator(call.is_producer)
            total == guideRateSum(fc, parent(call.name), call.always)
            my == guideRate(fc, call.name, call.always)
        IN IF RLess(total, guide_rate_epsilon)
           THEN call.result.n = 0 /\ ~call.divided
           ELSE call.divided /\ REq(call.result, RDiv(my, total))

\* C9 amended: 0 without a division when the sum is at most 1e-12 (not
\* greater than it), otherwise the child's guide rate divided by the sum.
C9_ZeroUpToEpsilon ==
    call.op = "localFraction" =>
        LET fc == Calculator(call.is_producer)
            total == guideRateSum(fc, parent(call.name), call.always)
            my == guideRate(fc, call.name, call.always)
        IN IF RLeq(total, guide_rate_epsilon)
           THEN call.result.n = 0 /\ ~call.divided
           ELSE call.divided /\ REq(call.result, RDiv(my, total))

\* C9 witness: the sum is exactly 1e-12, the child's guide rate is not 0 and
\* the result is 0.
C9_Witness ==
    /\ call.op = "localFraction"
    /\ LET fc == Calculator(call.is_producer)
       IN /\ REq(guideRateSum(fc, parent(call.name), call.always), guide_rate_epsilon)
          /\ guideRate(fc, call.name, call.always).n # 0
    /\ call.result.n = 0

\* the wells groupControlledWells counts for a group: the wells of its
\* subtree that are under group control (or always included) and are reached
\* through eligible groups only
GroupControlledWellSet(fc, g, always) ==
    {w \in SubtreeWells(g) :
        /\ Eligible(fc, w, always)
        /\ \A h \in ChainBelow(w, g) \ {w} : Eligible(fc, h, always)}

\* the group has a registered guide rate for the calculator's role
Registered(fc, g) ==
    IF fc.is_producer THEN g \in guide_rate.has
    ELSE <<g, fc.injection_phase>> \in guide_rate.hasInj

\* C10: the guide rate of a well is its guide-rate-model value; of a group
\* with a group-controlled descendant well, the registered value if there is
\* one, else the sum of the guide rates of its eligible children; of a group
\* without group-controlled descendant wells 0, registered or not.
C10_GuideRateOfName ==
    call.op = "guideRate" =>
        LET fc == Calculator(call.is_producer)
            E == EligibleChildren(fc, call.name, call.always)
        IN REq(call.result,
               IF call.name \in Wells THEN guide_rate.value[call.name]
               ELSE IF GroupControlledWellSet(fc, call.name, call.always) = {} THEN Zero
               ELSE IF Registered(fc, call.name)
                    THEN IF fc.is_producer THEN guide_rate.value[call.name]
                         ELSE guide_rate.injValue[call.name]
               ELSE SumOver(E, [c \in E |-> guideRate(fc, c, call.always)]))

\* C10 witness: a registered group without group-controlled wells gets 0.
C10_Witness ==
    /\ call.op = "guideRate" /\ call.name \in Groups
    /\ Registered(Calculator(call.is_producer), call.name)
    /\ guide_rate.value[call.name].n # 0
    /\ DirectWells(call.name) # {}
    /\ call.result.n = 0

-----------------------------------------------------------------------------
(* Inputs of the constraint checkers.                                      *)

\* the group trees and well placements of the checker runs: G1 alone under
\* FIELD with both wells; G2 under G1 with W1 in G2; G2 beside G1
CheckTrees ==
    {[parent |-> [FIELD |-> "", G1 |-> "FIELD"], order |-> <<"G1">>,
      wellGroup |-> [W1 |-> "G1", W2 |-> "G1"]],
     [parent |-> [FIELD |-> "", G1 |-> "FIELD", G2 |-> "G1"], order |-> <<"G1", "G2">>,
      wellGroup |-> [W1 |-> "G2", W2 |-> "G1"]],
     [parent |-> [FIELD |-> "", G1 |-> "FIELD", G2 |-> "G1"], order |-> <<"G1", "G2">>,
      wellGroup |-> [W1 |-> "G2", W2 |-> "G2"]],
     [parent |-> [FIELD |-> "", G1 |-> "FIELD", G2 |-> "FIELD"], order |-> <<"G1", "G2">>,
      wellGroup |-> [W1 |-> "G1", W2 |-> "G2"]]}

\* the schedules of the checker runs: every group declares an oil rate
\* target and a surface injection limit of 100; the groups of unavailable
\* are not available for the control of their parent; declared tells whether
\* the groups have production and injection controls
CheckSchedules ==
    {[parent |-> t.parent, groupOrder |-> t.order, wellOrder |-> <<"W1", "W2">>,
      gefac |-> e.g, wellEfac |-> e.w,
      wellGroup |-> t.wellGroup, isProducer |-> [w \in WellNames |-> TRUE],
      status |-> [w \in WellNames |-> "OPEN"],
      oil_target |-> [g \in DOMAIN t.parent |-> RInt(100)],
      surface_max_rate |-> [g \in DOMAIN t.parent |-> RInt(100)],
      prodAvailable |-> [g \in DOMAIN t.parent |-> g \notin unavailable],
      injAvailable |-> [g \in DOMAIN t.parent |-> g \notin unavailable],
      isProductionGroup |-> [g \in DOMAIN t.parent |-> declared],
      isInjectionGroup |-> [g \in DOMAIN t.parent |-> declared]] :
        t \in CheckTrees, e \in EfacChoices, unavailable \in {{}, {"G1"}},
        declared \in BOOLEAN}

\* the current control modes of the groups of a checker run
CheckControls ==
    {cm \in [Groups -> {"NONE", "FLD", "ORAT"}] :
        /\ cm[FIELD] # "FLD"
        /\ "G2" \in Groups => cm["G2"] # "FLD"}

\* base magnitude of the stored reduction of group g in phase position p
BaseReduction(g, p) == (IF g = "G1" THEN 40 ELSE IF g = "G2" THEN 25 ELSE 60) + p

\* the reduction levels: none, below the target, above the target
ReductionLevels == {0, 1, 3}

\* stored group target reductions
StoredReductions(level) ==
    [g \in Groups |-> [p \in PhasePositions |-> RInt(level * BaseReduction(g, p))]]

\* the well state of a checker run
CheckWellState(cm, grup, level) ==
    ControlWellState(cm, grup) @@
        [productionReduction |-> StoredReductions(level),
         injectionReduction |-> StoredReductions(level)]

InitCheck ==
    /\ schedule \in CheckSchedules
    /\ \E cm \in CheckControls, grup \in SUBSET WellNames, level \in ReductionLevels :
          wellState = [p \in Procs |-> CheckWellState(cm, grup, level)]
    /\ \E reg \in {{}, {"G2"}, {"G1", "G2"}}, m1 \in {0, 3} :
          guide_rate = Registry(reg, m1, 1, 0)
    /\ call = NoCall

\* the rates passed for the checked name: at rest or flowing; negative for
\* the production check, positive for the injection check
CheckRates(sign) ==
    {[p \in PhasePositions |-> RInt(sign * level * (10 * p + 30))] : level \in {0, 1}}

\* the efficiency factor the callers pass: that of the checked well or group
OwnEfficiencyFactor(name) ==
    IF hasWell(name) THEN getEfficiencyFactor(name) ELSE getGroupEfficiencyFactor(name)

\* mutant of CallCheckGroupConstraintsProd: the check clears the reduction
\* stored for the group it has been given
CallCheckGroupConstraintsProdMutantWrites(name, rates) ==
    /\ call = NoCall
    /\ call' = [op |-> "checkGroupConstraintsProd", name |-> name,
                group |-> parent(name), rates |-> rates,
                efficiencyFactor |-> OwnEfficiencyFactor(name),
                result |-> checkGroupConstraintsProd(name, parent(name), parent(name),
                               wellState[ThisProc], rates, OwnEfficiencyFactor(name))]
    /\ wellState' = [wellState EXCEPT
                        ![ThisProc].productionReduction[parent(name)] =
                            [p \in PhasePositions |-> Zero]]
    /\ UNCHANGED <<schedule, guide_rate>>

\* the well model checks a well or a group against the controls above it
CallCheckGroupConstraintsProd(name, rates) ==
    /\ call = NoCall
    /\ call' = [op |-> "checkGroupConstraintsProd", name |-> name,
                group |-> parent(name), rates |-> rates,
                efficiencyFactor |-> OwnEfficiencyFactor(name),
                result |-> checkGroupConstraintsProd(name, parent(name), parent(name),
                               wellState[ThisProc], rates, OwnEfficiencyFactor(name))]
    /\ UNCHANGED <<schedule, wellState, guide_rate>>

CallCheckGroupConstraintsInj(name, injectionPhase, rates) ==
    /\ call = NoCall
    /\ call' = [op |-> "checkGroupConstraintsInj", name |-> name,
                group |-> parent(name), rates |-> rates, phase |-> injectionPhase,
                efficiencyFactor |-> OwnEfficiencyFactor(name),
                result |-> checkGroupConstraintsInj(name, parent(name), parent(name),
                               wellState[ThisProc], rates, injectionPhase,
                               OwnEfficiencyFactor(name))]
    /\ UNCHANGED <<schedule, wellState, guide_rate>>

NextCheck ==
    \/ \E name \in Wells \cup (Groups \ {FIELD}), rates \in CheckRates(-1) :
          CallCheckGroupConstraintsProd(name, rates)
    \/ \E name \in Wells \cup (Groups \ {FIELD}), rates \in CheckRates(1) :
          CallCheckGroupConstraintsInj(name, "WATER", rates)

SpecCheck == InitCheck /\ [][NextCheck]_vars

-----------------------------------------------------------------------------
(* Claims about the constraint checkers.                                   *)

CheckerCalls == {"checkGroupConstraintsProd", "checkGroupConstraintsInj"}

\* C4: the target rate that checkGroupConstraintsProd and
\* checkGroupConstraintsInj compare with the current rate and divide by it is
\* at least 1e-12, whatever the reductions, fractions, efficiency factors and
\* current rate are
C4_TargetRateAtLeastFloor ==
    (call.op \in CheckerCalls /\ call.result.ret = "target") =>
        /\ ~RLess(call.result.target_rate, R(1, 1, 12))
        /\ call.result.violated
              = RGreater(call.result.current_rate, call.result.target_rate)
        /\ call.result.current_rate.n # 0 =>
              call.result.scale = RDiv(call.result.target_rate, call.result.current_rate)

\* a check whose target came out negative and was floored
C4_Witness ==
    /\ call.op \in CheckerCalls
    /\ call.result.ret = "target"
    /\ call.result.target.n < 0
    /\ call.result.target_rate = R(1, 1, 12)
    /\ call.result.current_rate.n > 0

\* the scenario of C5: FIELD -> G1 -> {W1, W2}, no other group, G1 under oil
\* rate control with target 100, guide rates 3 and 1, no stored reduction for
\* G1, and the production check called for W1 with group G1
C5_Scenario ==
    /\ Groups = {FIELD, "G1"}
    /\ \A w \in Wells : parent(w) = "G1" /\ isProducer(w)
    /\ currentProductionGroupControl(wellState[ThisProc], "G1") = "ORAT"
    /\ isProductionGroup("G1")
    /\ schedule.oil_target["G1"] = RInt(100)
    /\ guide_rate.value["W1"] = RInt(3)
    /\ guide_rate.value["W2"] = RInt(1)
    /\ \A p \in PhasePositions :
          wellState[ThisProc].productionReduction["G1"][p] = Zero
    /\ call.op = "checkGroupConstraintsProd"
    /\ call.name = "W1"
    /\ call.group = "G1"

\* C5 as stated: in the scenario the check of W1 yields target_rate = 75
C5_TargetRateIs75 ==
    C5_Scenario => (call.result.ret = "target" /\ call.result.target_rate = RInt(75))

\* C5, amended: in the scenario the check of W1 yields
\* target_rate = (100 / E + r) * s, with r the oil production rate passed for
\* W1, E the efficiency factor passed for W1 times the group efficiency factor
\* of G1, and s = 3/4 when W2 is under group control, s = 1 when it is not;
\* this is 75 when W2 is under group control, r = 0 and E = 1
C5_TargetRateOfScenario ==
    C5_Scenario =>
        LET r == RNeg(call.rates[phase_pos("OIL")])
            E == RMul(call.efficiencyFactor, schedule.gefac["G1"])
            s == IF isProductionGrup(wellState[ThisProc], "W2") THEN R(3, 4, 0) ELSE One
        IN /\ call.result.ret = "target"
           /\ call.result.target_rate = RMul(RAdd(RDiv(RInt(100), E), r), s)
           /\ (isProductionGrup(wellState[ThisProc], "W2") /\ r = Zero /\ E = One)
                 => call.result.target_rate = RInt(75)

\* the scenario with W2 under group control, W1 at rest and efficiency 1
C5_Witness ==
    /\ C5_Scenario
    /\ isProductionGrup(wellState[ThisProc], "W2")
    /\ call.rates[phase_pos("OIL")] = Zero
    /\ call.efficiencyFactor = One /\ schedule.gefac["G1"] = One
    /\ call.result.target_rate = RInt(75)

\* the group the check starts at and all its ancestors have current control NONE
AllNoneUpToField ==
    \A g \in GroupAncestors(call.group) :
        IF call.op = "checkGroupConstraintsProd"
        THEN currentProductionGroupControl(wellState[ThisProc], g) = "NONE"
        ELSE currentInjectionGroupControl(wellState[ThisProc], call.phase, g) = "NONE"

\* C6: when the checked group and all its ancestors up to FIELD have current
\* control NONE, both checks return (false, 1.0) and never look up a parent
\* of FIELD
C6_AllNoneIsUnconstrained ==
    (call.op \in CheckerCalls /\ AllNoneUpToField) =>
        /\ call.result.ret = "unavailable"
        /\ call.result.violated = FALSE
        /\ call.result.scale = One

\* a check that climbed from G2 through G1 to FIELD and stopped there
C6_Witness ==
    /\ call.op \in CheckerCalls
    /\ AllNoneUpToField
    /\ call.group = "G2"
    /\ parentOfGroup("G2") = "G1"
    /\ call.result.ret = "unavailable"
    /\ call.result.at = FIELD

\* the calculators, chain and control mode of the checker call that reached a target
IsProdCheck == call.op = "checkGroupConstraintsProd"
CheckPhase == IF IsProdCheck THEN "OIL" ELSE call.phase
CheckControl(g) ==
    IF IsProdCheck THEN currentProductionGroupControl(wellState[ThisProc], g)
    ELSE currentInjectionGroupControl(wellState[ThisProc], call.phase, g)
CheckFcalc ==
    [well_state |-> wellState[ThisProc], is_producer |-> IsProdCheck,
     injection_phase |-> CheckPhase]
CheckTcalc ==
    IF IsProdCheck THEN TargetCalculator(CheckControl(call.result.top))
    ELSE InjectionTargetCalculator(CheckControl(call.result.top), call.phase)
CheckChain == groupChainTopBot(call.name, call.result.top)
ReachedTarget == call.op \in CheckerCalls /\ call.result.ret = "target"

RECURSIVE NearestControlled(_)
NearestControlled(g) ==
    IF CheckControl(g) \notin {"FLD", "NONE"} THEN g
    ELSE IF g = FIELD THEN ""
    ELSE NearestControlled(parentOfGroup(g))

\* the FLD/NONE groups passed from the group of the call up to the target's group
PassedGroups == GroupAncestors(call.group) \ GroupAncestors(call.result.top)

\* C12 as stated: the target is evaluated at the nearest ancestor under
\* individual control and the efficiency factor used there is the factor
\* passed in times the factors of the FLD/NONE groups passed
C12_FactorOfPassedGroups ==
    ReachedTarget =>
        /\ call.result.top = NearestControlled(call.group)
        /\ call.result.efficiencyFactorInclGroup
              = RMul(call.efficiencyFactor, ProdOver(PassedGroups, schedule.gefac))

\* C12, amended: the target is evaluated at the nearest group, from the group
\* passed in upwards, under individual control, and the efficiency factor
\* used there is the factor passed in times the own factor of every FLD/NONE
\* group passed and times the own factor of the controlling group, each once
C12_FactorInclControlGroup ==
    ReachedTarget =>
        /\ call.result.top = NearestControlled(call.group)
        /\ \A g \in PassedGroups : CheckControl(g) \in {"FLD", "NONE"}
        /\ call.result.efficiencyFactorInclGroup
              = RMul(call.efficiencyFactor,
                     ProdOver(PassedGroups \cup {call.result.top}, schedule.gefac))

\* a check that passed two groups on the way up, with factors other than 1
C12_Witness ==
    /\ ReachedTarget
    /\ call.group = "G2" /\ call.result.top = FIELD
    /\ schedule.gefac["G1"] # One
    /\ call.result.efficiencyFactorInclGroup
          = RMul(call.efficiencyFactor,
                 RMul(schedule.gefac["G2"], RMul(schedule.gefac["G1"], schedule.gefac[FIELD])))

\* the levels of the chain, counted from 0 at the top, that have a guide rate
RegisteredLevels ==
    {ii \in 1..(Len(CheckChain) - 2) : checkerGuideRateHas(CheckFcalc, CheckChain[ii + 1])}

\* the registered level nearest to the checked name, 0 (the top) without one
DeepestRegisteredLevel ==
    IF RegisteredLevels = {} THEN 0
    ELSE CHOOSE ii \in RegisteredLevels : \A jj \in RegisteredLevels : jj <= ii

\* the registered level nearest to the top, 0 (the top) without one
ShallowestRegisteredLevel ==
    IF RegisteredLevels = {} THEN 0
    ELSE CHOOSE ii \in RegisteredLevels : \A jj \in RegisteredLevels : ii <= jj

\* the product of the local fractions applied from level ii downwards
FractionsFrom(ii) ==
    ProdOver((ii + 2)..Len(CheckChain),
             [n \in 2..Len(CheckChain) |-> localFraction(CheckFcalc, CheckChain[n], call.name)])

\* what the current rate of the checked name adds to the final target: the
\* target of the call minus the target of the same walk for a name at rest
OwnContribution ==
    RSub(call.result.target,
         walkTarget(CheckFcalc, CheckTcalc, call.name, CheckChain,
                    IF IsProdCheck THEN groupTarget(CheckTcalc, call.result.top)
                    ELSE groupTargetInj(CheckTcalc, call.result.top),
                    Zero, call.result.efficiencyFactorInclGroup))

\* current_rate times the accumulated efficiency factor, added once at level ii
AddedOnceAt(ii) ==
    RMul(RMul(call.result.current_rate, call.result.efficiencyFactorInclGroup),
         FractionsFrom(ii))

\* C13 as stated: the own contribution is added back exactly once, at the
\* shallowest level where a guide rate is registered, or at the top
C13_AddedBackAtShallowest ==
    ReachedTarget => REq(OwnContribution, AddedOnceAt(ShallowestRegisteredLevel))

\* C13, amended: the own contribution is added back exactly once, at the
\* deepest level (the one nearest to the checked name) among the levels above
\* the name where a guide rate is registered, or at the top of the chain when
\* no level below the top has a registered guide rate
C13_AddedBackAtDeepest ==
    ReachedTarget => REq(OwnContribution, AddedOnceAt(DeepestRegisteredLevel))

\* a flowing well below two registered groups whose shares differ
C13_Witness ==
    /\ ReachedTarget
    /\ Len(CheckChain) = 4
    /\ RegisteredLevels = {1, 2}
    /\ call.result.current_rate.n # 0
    /\ ~REq(AddedOnceAt(1), AddedOnceAt(2))
    /\ ~REq(AddedOnceAt(0), AddedOnceAt(2))

-----------------------------------------------------------------------------
(* updateGroupTargetReduction.                                             *)

\* the injection phase whose rates are held at a phase position
phaseAt(phasePos) ==
    IF phasePos = phase_pos("WATER") THEN "WATER"
    ELSE IF phasePos = phase_pos("OIL") THEN "OIL" ELSE "GAS"

\* std::vector<double>(np, 0.0)
ZeroVector == [p \in PhasePositions |-> Zero]

\* the subgroup is under individual control, for production or for the
\* injection phase held at phasePos
individual_control(ws, subGroupName, injector, phasePos) ==
    LET currentGroupControl ==
            IF injector
            THEN currentInjectionGroupControl(ws, phaseAt(phasePos), subGroupName)
            ELSE currentProductionGroupControl(ws, subGroupName)
    IN currentGroupControl # "FLD" /\ currentGroupControl # "NONE"

\* mutant of subGroupContribution: a subgroup under individual control passes
\* its own reduction up like any other
subGroupContributionMutantOwnReduction(subGroupName, injector, wellStateNupcol, ws, subGroupTargetReduction, phasePos) ==
    IF injector THEN subGroupTargetReduction[phasePos]
    ELSE IF groupControlledWells(wellStateNupcol, subGroupName, "", ~injector, "OIL") = 0
         THEN sumWellRates(subGroupName, wellStateNupcol, phasePos, injector)
         ELSE IF ~guideRateHas(subGroupName) THEN subGroupTargetReduction[phasePos]
              ELSE Zero

\* "accumulate group contribution from sub group": what the subgroup adds to
\* groupTargetReduction[phasePos], its own reduction being subGroupTargetReduction
subGroupContribution(subGroupName, injector, wellStateNupcol, ws, subGroupTargetReduction, phasePos) ==
    IF injector
    THEN IF individual_control(ws, subGroupName, injector, phasePos)
         THEN sumWellRates(subGroupName, wellStateNupcol, phasePos, injector)
         ELSE subGroupTargetReduction[phasePos]
    ELSE IF \/ individual_control(ws, subGroupName, injector, phasePos)
            \/ groupControlledWells(wellStateNupcol, subGroupName, "", ~injector, "OIL") = 0
         THEN sumWellRates(subGroupName, wellStateNupcol, phasePos, injector)
         ELSE IF ~guideRateHas(subGroupName)
              THEN \* accumulate from this subgroup only if no group guide rate is set
                   subGroupTargetReduction[phasePos]
              ELSE Zero

\* mutant of reductionSkipsWell: wells under group control are counted too
reductionSkipsWellMutantGrup(ws, wellName, injector) ==
    \/ (isProducer(wellName) /\ injector)
    \/ (isInjector(wellName) /\ ~injector)
    \/ getStatus(wellName) = "SHUT"
    \/ wellName \notin ws.wellMap
    \/ ~wellIsOwned(ws, wellName)

\* a well of the group adds nothing: one of the loop's "continue" conditions
\* holds or the well is under GRUP control
reductionSkipsWell(ws, wellName, injector) ==
    \/ (isProducer(wellName) /\ injector)
    \/ (isInjector(wellName) /\ ~injector)
    \/ getStatus(wellName) = "SHUT"
    \/ wellName \notin ws.wellMap                  \* the well is not found
    \/ ~wellIsOwned(ws, wellName)                  \* only sum once
    \/ IF injector THEN ws.currentInjectionControls[wellName] = "GRUP"
       ELSE ws.currentProductionControls[wellName] = "GRUP"

\* mutant of wellContribution: the rate is read from the state being updated
wellContributionMutantCurrentRates(wellName, injector, wellStateNupcol, ws, phasePos) ==
    IF reductionSkipsWell(ws, wellName, injector) THEN Zero
    ELSE IF injector
         THEN RMul(ws.wellRates[wellName][phasePos], getEfficiencyFactor(wellName))
         ELSE RNeg(RMul(ws.wellRates[wellName][phasePos], getEfficiencyFactor(wellName)))

\* "add contribution from wells not under group control": what the well adds
\* to groupTargetReduction[phasePos]
wellContribution(wellName, injector, wellStateNupcol, ws, phasePos) ==
    IF reductionSkipsWell(ws, wellName, injector) THEN Zero
    ELSE IF injector
         THEN RMul(wellStateNupcol.wellRates[wellName][phasePos],
                   getEfficiencyFactor(wellName))
         ELSE RNeg(RMul(wellStateNupcol.wellRates[wellName][phasePos],
                        getEfficiencyFactor(wellName)))

\* mutant of scaledReduction: the group's own factor is left out
scaledReductionMutantNoFactor(group, groupTargetReduction) == groupTargetReduction

\* elem *= groupEfficiency for every element
scaledReduction(group, groupTargetReduction) ==
    [p \in PhasePositions |->
        RMul(groupTargetReduction[p], getGroupEfficiencyFactor(group))]

\* mutant of storedReduction: the reduction is always stored for production
storedReductionMutantProduction(ws, group, injector, groupTargetReduction) ==
    [ws EXCEPT !.productionReduction[group] = groupTargetReduction]

\* setCurrentInjectionGroupReductionRates / setCurrentProductionGroupReductionRates
storedReduction(ws, group, injector, groupTargetReduction) ==
    IF injector
    THEN [ws EXCEPT !.injectionReduction[group] = groupTargetReduction]
    ELSE [ws EXCEPT !.productionReduction[group] = groupTargetReduction]

\* updateGroupTargetReduction: the well state and the vector groupTargetReduction
\* (an in-out argument) after the call, and the groups in the order in which
\* their reductions were stored
RECURSIVE updateGroupTargetReduction(_, _, _, _, _)
updateGroupTargetReduction(group, injector, wellStateNupcol, ws, groupTargetReduction) ==
    LET gs == groups(group)
        afterGroups[i \in 0..Len(gs)] ==
            IF i = 0 THEN [ws |-> ws, red |-> groupTargetReduction, order |-> <<>>]
            ELSE LET prev == afterGroups[i - 1]
                     sub == updateGroupTargetReduction(gs[i], injector, wellStateNupcol,
                                                       prev.ws, ZeroVector)
                 IN [ws |-> sub.ws,
                     order |-> prev.order \o sub.order,
                     red |-> [p \in PhasePositions |->
                                RAdd(prev.red[p],
                                     subGroupContribution(gs[i], injector, wellStateNupcol,
                                                          sub.ws, sub.red, p))]]
        wl == wells(group)
        afterWells[i \in 0..Len(wl)] ==
            IF i = 0 THEN afterGroups[Len(gs)].red
            ELSE [p \in PhasePositions |->
                    RAdd(afterWells[i - 1][p],
                         wellContribution(wl[i], injector, wellStateNupcol, ws, p))]
        scaled == scaledReduction(group, afterWells[Len(wl)])
    IN [ws |-> storedReduction(afterGroups[Len(gs)].ws, group, injector, scaled),
        red |-> scaled,
        order |-> Append(afterGroups[Len(gs)].order, group)]

-----------------------------------------------------------------------------
(* Inputs of updateGroupTargetReduction.                                   *)

\* the schedules of the reduction runs: G2 under G1 or beside it, the wells
\* in G1 or G2, both producers, both injectors or one of each, W2 open or shut
ReduceSchedules ==
    {[parent |-> [FIELD |-> "", G1 |-> "FIELD", G2 |-> p2],
      groupOrder |-> <<"G1", "G2">>, wellOrder |-> <<"W1", "W2">>,
      gefac |-> e.g, wellEfac |-> e.w,
      wellGroup |-> wg, isProducer |-> ip,
      status |-> [W1 |-> "OPEN", W2 |-> st]] :
        p2 \in {"FIELD", "G1"}, e \in EfacChoices,
        wg \in {f \in [WellNames -> {"G1", "G2"}] : ~(f["W1"] = "G1" /\ f["W2"] = "G2")},
        ip \in {f \in [WellNames -> BOOLEAN] : f["W1"] \/ ~f["W2"]},
        st \in {"OPEN", "SHUT"}}

\* the injection control mode of a group for a phase: for water the mode
\* standing at the place of the production mode, for oil and gas the other way round
ReduceInjectionMode(phase, m) ==
    IF phase = "WATER" THEN InjectionMode(m)
    ELSE IF m \in {"FLD", "NONE"} THEN "RATE" ELSE "NONE"

\* reductions left in the state by an earlier call
StaleReductions == [g \in GroupNames |-> [p \in PhasePositions |-> RInt(-1)]]

\* a well state of a reduction run: W1 is present and owned, W2 is placed by
\* place; the wells of grup are under GRUP control; rates at the given level
ReduceWellState(cm, grup, place, level) ==
    LET wmap == {"W1"} \cup (IF "p1" \in place.present THEN {"W2"} ELSE {})
        rates == StoredRates(schedule.isProducer, level)
    IN [wellMap |-> wmap,
        owned |-> {"W1"} \cup (IF place.owner = "p1" THEN {"W2"} ELSE {}),
        wellRates |-> [w \in wmap |-> rates[w]],
        currentProductionGroupControl |-> cm,
        currentInjectionGroupControl |->
            [ph \in InjectionPhases |-> [g \in DOMAIN cm |-> ReduceInjectionMode(ph, cm[g])]],
        productionGrup |-> grup,
        injectionGrup |-> grup,
        currentProductionControls |->
            [w \in WellNames |-> IF w \in grup THEN "GRUP" ELSE "ORAT"],
        currentInjectionControls |->
            [w \in WellNames |-> IF w \in grup THEN "GRUP" ELSE "RATE"],
        productionReduction |-> StaleReductions,
        injectionReduction |-> StaleReductions]

\* the name under which the nupcol snapshot of the well state is kept
Nupcol == "nupcol"

\* the current well state of the process and the nupcol snapshot: the
\* snapshot holds other rates and, possibly, other wells under group control
InitReduce ==
    /\ schedule \in ReduceSchedules
    /\ \E c1 \in {"NONE", "ORAT"}, c2 \in {"FLD", "ORAT"}, grup \in SUBSET WellNames,
          flip \in BOOLEAN, level \in 1..MaxRateLevel,
          place \in {pl \in Placements : pl.owner # "nobody"} :
          LET cm == [FIELD |-> "NONE", G1 |-> c1, G2 |-> c2]
          IN wellState =
                (ThisProc :> ReduceWellState(cm, grup, place, level + 1))
                @@ (Nupcol :> ReduceWellState(cm, IF flip THEN WellNames \ grup ELSE grup,
                                              place, level))
    /\ \E reg \in {{}, {"G1", "G2"}} : guide_rate = Registry(reg, 1, 1, 0)
    /\ call = NoCall

\* the reduction stored for a group, for injection or for production
reductionOf(ws, group, injector) ==
    IF injector THEN ws.injectionReduction[group] ELSE ws.productionReduction[group]

\* the well model refreshes the target reductions of a group and its subtree;
\* the call also records what every subgroup and well of the group added
CallUpdateGroupTargetReduction(group, injector) ==
    /\ call = NoCall
    /\ LET res == updateGroupTargetReduction(group, injector, wellState[Nupcol],
                                             wellState[ThisProc], ZeroVector)
       IN /\ wellState' = [wellState EXCEPT ![ThisProc] = res.ws]
          /\ call' = [op |-> "updateGroupTargetReduction", group |-> group,
                      injector |-> injector,
                      groupTargetReduction |-> res.red,
                      fromGroups |->
                          [sub \in Range(groups(group)) |->
                              [p \in PhasePositions |->
                                  subGroupContribution(sub, injector, wellState[Nupcol],
                                      res.ws, reductionOf(res.ws, sub, injector), p)]],
                      fromWells |->
                          [w \in Range(wells(group)) |->
                              [p \in PhasePositions |->
                                  wellContribution(w, injector, wellState[Nupcol],
                                                   wellState[ThisProc], p)]]]
    /\ UNCHANGED <<schedule, guide_rate>>

NextReduce ==
    \E group \in Groups, injector \in BOOLEAN : CallUpdateGroupTargetReduction(group, injector)

SpecReduce == InitReduce /\ [][NextReduce]_vars

-----------------------------------------------------------------------------
(* Claims about updateGroupTargetReduction.                                *)

IsReduction == call.op = "updateGroupTargetReduction"

\* the subgroups and wells of the group of the call
CallSubGroups == Range(groups(call.group))
CallWells == Range(wells(call.group))

\* the current control of subgroup sub that the call looks at for position p
ReductionControl(sub, p) ==
    IF call.injector
    THEN wellState[ThisProc].currentInjectionGroupControl[phaseAt(p)][sub]
    ELSE wellState[ThisProc].currentProductionGroupControl[sub]

\* the guide rate registered for subgroup sub, for the phase at position p of
\* an injection call
ReductionRegistered(sub, p) ==
    IF call.injector THEN guideRateHasPhase(sub, phaseAt(p)) ELSE guideRateHas(sub)

\* the aggregated rate of the subgroup over the nupcol snapshot
NupcolRate(sub, p) == sumWellRates(sub, wellState[Nupcol], p, call.injector)

\* the reduction stored for the subgroup
OwnReduction(sub, p) == reductionOf(wellState[ThisProc], sub, call.injector)[p]

\* C14: in both variants a subgroup under individual control adds its full
\* aggregated rate over the nupcol snapshot to the parent's reduction, and its
\* own reduction vector is not added
C14_IndividualControlAddsFullRate ==
    IsReduction =>
        \A sub \in CallSubGroups, p \in PhasePositions :
            ReductionControl(sub, p) \notin {"FLD", "NONE"} =>
                call.fromGroups[sub][p] = NupcolRate(sub, p)

\* a subgroup under individual control whose rate differs from its own reduction
C14_Witness ==
    /\ IsReduction
    /\ \E sub \in CallSubGroups, p \in PhasePositions :
          /\ ReductionControl(sub, p) \notin {"FLD", "NONE"}
          /\ NupcolRate(sub, p).n > 0
          /\ OwnReduction(sub, p).n > 0
          /\ OwnReduction(sub, p) # NupcolRate(sub, p)
          /\ call.fromGroups[sub][p] = NupcolRate(sub, p)

\* C15 as stated: in both variants a subgroup whose current control is FLD or
\* NONE adds nothing when it has a registered guide rate and adds its own
\* reduction vector unchanged when it has none
C15_EligibleSubgroup ==
    IsReduction =>
        \A sub \in CallSubGroups, p \in PhasePositions :
            ReductionControl(sub, p) \in {"FLD", "NONE"} =>
                call.fromGroups[sub][p]
                    = IF ReductionRegistered(sub, p) THEN Zero ELSE OwnReduction(sub, p)

\* the well's rate in the nupcol snapshot, weighted and sign-normalized
WeightedNupcolRate(w, p) ==
    RMul(RInt(IF call.injector THEN 1 ELSE -1),
         RMul(wellState[Nupcol].wellRates[w][p], schedule.wellEfac[w]))

\* the well matches the role of the call, is not shut, is present and owned in
\* the state and is not under GRUP control
CountedInReduction(w) ==
    /\ schedule.isProducer[w] = ~call.injector
    /\ schedule.status[w] # "SHUT"
    /\ w \in wellState[ThisProc].wellMap
    /\ w \in wellState[ThisProc].owned
    /\ IF call.injector THEN wellState[ThisProc].currentInjectionControls[w] # "GRUP"
       ELSE wellState[ThisProc].currentProductionControls[w] # "GRUP"

\* C16: a well of the group contributes its full efficiency-weighted,
\* sign-normalized nupcol rate to the reduction if and only if it matches the
\* role, is not shut, is present and owned, and is not under GRUP control
C16_WellContributesIff ==
    IsReduction =>
        \A w \in CallWells, p \in PhasePositions :
            call.fromWells[w][p]
                = IF CountedInReduction(w) THEN WeightedNupcolRate(w, p) ELSE Zero

\* a group with a counted well and a well left out for being under GRUP control
C16_Witness ==
    /\ IsReduction
    /\ \E w, v \in CallWells :
          /\ CountedInReduction(w)
          /\ call.fromWells[w][1].n > 0
          /\ call.fromWells[w][1] # RMul(RInt(IF call.injector THEN 1 ELSE -1),
                                         RMul(wellState[ThisProc].wellRates[w][1],
                                              schedule.wellEfac[w]))
          /\ schedule.isProducer[v] = ~call.injector
          /\ schedule.status[v] # "SHUT"
          /\ v \in wellState[ThisProc].owned
          /\ ~CountedInReduction(v)
          /\ call.fromWells[v][1] = Zero

\* what the subgroups and wells of the group added, for position p
Accumulated(p) ==
    RAdd(SumOver(CallSubGroups, [sub \in CallSubGroups |-> call.fromGroups[sub][p]]),
         SumOver(CallWells, [w \in CallWells |-> call.fromWells[w][p]]))

\* C17: the reduction stored for the group is the accumulated contribution of
\* its subgroups and wells times the group's own efficiency factor, stored
\* under the group's name for injection when called for injectors and for
\* production when called for producers, and never in the other one
C17_StoredScaledInOwnMap ==
    IsReduction =>
        /\ \A p \in PhasePositions :
              /\ reductionOf(wellState[ThisProc], call.group, call.injector)[p]
                    = RMul(Accumulated(p), schedule.gefac[call.group])
              /\ call.groupTargetReduction[p]
                    = reductionOf(wellState[ThisProc], call.group, call.injector)[p]
        /\ \A g \in Groups :
              reductionOf(wellState[ThisProc], g, ~call.injector) = StaleReductions[g]
        /\ \A g \in Groups :
              call.group \notin GroupAncestors(g) =>
                  reductionOf(wellState[ThisProc], g, call.injector) = StaleReductions[g]

\* a group with a factor other than 1 and a reduction other than 0
C17_Witness ==
    /\ IsReduction
    /\ schedule.gefac[call.group] # One
    /\ CallSubGroups # {}
    /\ \E p \in PhasePositions :
          /\ Accumulated(p).n > 0
          /\ reductionOf(wellState[ThisProc], call.group, call.injector)[p]
                = RMul(Accumulated(p), schedule.gefac[call.group])
    /\ \E sub \in CallSubGroups, w \in CallWells :
          call.fromGroups[sub][1].n > 0 /\ call.fromWells[w][1].n > 0

-----------------------------------------------------------------------------
(* computeNetworkPressures.  The network is a record: whether it is        *)
(* active, its root, and for every node the uptree node ("" for none), the *)
(* downtree nodes in the order of its branches, the VFP table of its       *)
(* uptree branch (0 for none), whether lift gas is added, and for every    *)
(* node that has one its terminal pressure.                                *)

\* BlackoilPhases::Aqua, Liquid, Vapour as positions counted from 1
Aqua == 1
Liquid == 2
Vapour == 3

\* ExtNetwork::downtree_branches(node): the downtree nodes of its branches
downtree_branches(network, node) == network.down[node]

\* ExtNetwork::uptree_branch(node): the uptree node, "" when there is no branch
uptree_branch(network, node) == network.up[node]

\* VFPProdProperties::bhp: the value of the table lookup, kept as a term
bhp(table, aqua, liquid, vapour, thp, alq) ==
    [fn |-> "bhp", table |-> table, aqua |-> aqua, liquid |-> liquid,
     vapour |-> vapour, thp |-> thp, alq |-> alq]

Front(s) == SubSeq(s, 1, Len(s) - 1)

\* pass 1, the loop over the stack of children: the nodes in visiting order
RECURSIVE root_to_child_nodes_loop(_, _, _)
root_to_child_nodes_loop(network, children, root_to_child_nodes) ==
    IF children = <<>> THEN root_to_child_nodes
    ELSE LET node == children[Len(children)]
         IN root_to_child_nodes_loop(network,
                Front(children) \o downtree_branches(network, node),
                Append(root_to_child_nodes, node))

\* mutant of root_to_child_nodes: the list is built from the leaves to the root
root_to_child_nodesMutantReversed(network) ==
    Reverse(root_to_child_nodes_loop(network, <<network.root>>, <<>>))

\* pass 1: all nodes, ordered so that a child is always after its parent
root_to_child_nodes(network) == root_to_child_nodes_loop(network, <<network.root>>, <<>>)

\* pass 1: the visited nodes without downtree branches
leaf_nodes(network) ==
    {node \in Range(root_to_child_nodes(network)) : downtree_branches(network, node) = <<>>}

\* the inflow of a leaf: the production rates of its group, the ALQ of the
\* group's wells added to the gas rate if requested
leaf_inflow(network, well_state, node) ==
    LET rates == well_state.currentProductionGroupRates[node]
        wl == wells(node)
        gas[i \in 0..Len(wl)] ==
            IF i = 0 THEN rates[Vapour] ELSE RAdd(gas[i - 1], well_state.ALQ[wl[i]])
    IN IF network.add_gas_lift_gas[node]
       THEN [rates EXCEPT ![Vapour] = gas[Len(wl)]]
       ELSE rates

\* mutant of added_inflow: the downtree inflow replaces the uptree inflow
added_inflowMutantAssign(up, down) == down

\* "add downbranch rates to upbranch": the uptree inflow after the addition;
\* an empty vector stands for an entry the map did not hold
added_inflow(up, down) ==
    IF up = <<>> THEN down
    ELSE [ii \in 1..Len(up) |-> RAdd(up[ii], down[ii])]

\* pass 2: the inflows after the first n nodes of the reversed list, and for
\* every node the inflow it had when it was added to its uptree node
node_inflows_after(network, well_state, n) ==
    LET child_to_root_nodes == Reverse(root_to_child_nodes(network))
        acc[i \in 0..n] ==
            IF i = 0
            THEN [inflows |-> [node \in network.nodes |->
                                  IF node \in leaf_nodes(network)
                                  THEN leaf_inflow(network, well_state, node) ELSE <<>>],
                  added |-> [node \in {} |-> <<>>]]
            ELSE LET node == child_to_root_nodes[i]
                     prev == acc[i - 1]
                     upnode == uptree_branch(network, node)
                 IN IF upnode # ""
                    THEN [inflows |-> [prev.inflows EXCEPT ![upnode] =
                                          added_inflow(prev.inflows[upnode],
                                                       prev.inflows[node])],
                          added |-> prev.added @@ (node :> prev.inflows[node])]
                    ELSE prev
    IN acc[n]

\* mutant of node_pressure: a branch without a table is looked up like any other
node_pressureMutantAlwaysLookup(network, node, up_press, inflow) ==
    IF node \in DOMAIN network.terminal_pressure
    THEN network.terminal_pressure[node]
    ELSE bhp(network.vfp_table[node], RNeg(inflow[Aqua]), RNeg(inflow[Liquid]),
             RNeg(inflow[Vapour]), up_press, Zero)

\* pass 3, one node: its fixed pressure, or the table lookup with the rates
\* sign-flipped, or the pressure of the uptree node when there is no table
node_pressure(network, node, up_press, inflow) ==
    IF node \in DOMAIN network.terminal_pressure
    THEN network.terminal_pressure[node]
    ELSE IF network.vfp_table[node] # 0
         THEN bhp(network.vfp_table[node], RNeg(inflow[Aqua]), RNeg(inflow[Liquid]),
                  RNeg(inflow[Vapour]), up_press, Zero)
         ELSE \* table number 9999 in the deck, no pressure loss
              up_press

\* pass 3: the pressures, and the nodes whose uptree pressure was read
\* before it was assigned (the map then holds a default 0.0 under that name)
node_pressures_pass(network, inflows) ==
    LET nodes == root_to_child_nodes(network)
        acc[i \in 0..Len(nodes)] ==
            IF i = 0 THEN [pressures |-> [node \in {} |-> Zero], default_reads |-> {}]
            ELSE LET node == nodes[i]
                     prev == acc[i - 1]
                     upnode == uptree_branch(network, node)
                     fixed == node \in DOMAIN network.terminal_pressure
                     assigned == upnode \in DOMAIN prev.pressures
                     up_press == IF assigned THEN prev.pressures[upnode] ELSE Zero
                 IN [pressures |->
                        (node :> node_pressure(network, node, up_press, inflows[node]))
                        @@ (IF fixed \/ assigned THEN prev.pressures
                            ELSE (upnode :> Zero) @@ prev.pressures),
                     default_reads |->
                        IF fixed \/ assigned THEN prev.default_reads
                        ELSE prev.default_reads \cup {node}]
    IN acc[Len(nodes)]

\* computeNetworkPressures: the returned pressures, with the lists and
\* inflows of the passes
computeNetworkPressures(network, well_state) ==
    IF ~network.active
    THEN [active |-> FALSE, node_pressures |-> [node \in {} |-> Zero]]
    ELSE LET nodes == root_to_child_nodes(network)
             pass2 == node_inflows_after(network, well_state, Len(nodes))
             pass3 == node_pressures_pass(network, pass2.inflows)
         IN [active |-> TRUE,
             root_to_child_nodes |-> nodes,
             leaf_nodes |-> leaf_nodes(network),
             node_inflows |-> pass2.inflows,
             added |-> pass2.added,
             default_reads |-> pass3.default_reads,
             node_pressures |-> pass3.pressures]

-----------------------------------------------------------------------------
(* Inputs of computeNetworkPressures.                                      *)

\* the shapes of the networks: the root FIELD, the groups G1 and G2 as leaves
\* or as inner nodes, and the manifold B1
NetworkShapes ==
    {[up |-> [FIELD |-> "", G1 |-> "FIELD"],
      down |-> [FIELD |-> <<"G1">>, G1 |-> <<>>]],
     [up |-> [FIELD |-> "", G1 |-> "FIELD", G2 |-> "FIELD"],
      down |-> [FIELD |-> <<"G1", "G2">>, G1 |-> <<>>, G2 |-> <<>>]],
     [up |-> [FIELD |-> "", G1 |-> "FIELD", G2 |-> "G1"],
      down |-> [FIELD |-> <<"G1">>, G1 |-> <<"G2">>, G2 |-> <<>>]],
     [up |-> [FIELD |-> "", B1 |-> "FIELD", G1 |-> "B1", G2 |-> "B1"],
      down |-> [FIELD |-> <<"B1">>, B1 |-> <<"G2", "G1">>, G1 |-> <<>>, G2 |-> <<>>]],
     [up |-> [FIELD |-> "", B1 |-> "FIELD", G1 |-> "B1", G2 |-> "FIELD"],
      down |-> [FIELD |-> <<"B1", "G2">>, B1 |-> <<"G1">>, G1 |-> <<>>, G2 |-> <<>>]]}

\* the networks: the root has the fixed pressure 50, the nodes of fixed
\* below it the fixed pressure 30; the branches to the nodes of tables have
\* VFP table 1; the nodes of lift add lift gas
Networks ==
    {[active |-> a, root |-> FIELD, nodes |-> DOMAIN sh.up, up |-> sh.up, down |-> sh.down,
      vfp_table |-> [node \in DOMAIN sh.up |-> IF node \in tables THEN 1 ELSE 0],
      terminal_pressure |->
          [node \in {FIELD} \cup fixed |-> IF node = FIELD THEN RInt(50) ELSE RInt(30)],
      add_gas_lift_gas |-> [node \in DOMAIN sh.up |-> node \in lift]] :
        a \in BOOLEAN, sh \in NetworkShapes,
        tables \in SUBSET {"B1", "G1", "G2"}, fixed \in SUBSET {"B1", "G1"},
        lift \in SUBSET {"G1"}}

\* the schedule of a network run: W1 in G1 and W2 in G2
NetworkSchedules ==
    {[parent |-> [FIELD |-> "", G1 |-> "FIELD", G2 |-> "FIELD"],
      groupOrder |-> <<"G1", "G2">>, wellOrder |-> <<"W1", "W2">>,
      gefac |-> [g \in GroupNames |-> One], wellEfac |-> [w \in WellNames |-> One],
      wellGroup |-> [W1 |-> "G1", W2 |-> "G2"],
      isProducer |-> [w \in WellNames |-> TRUE],
      status |-> [w \in WellNames |-> "OPEN"],
      network |-> net] :
        net \in {n \in Networks : n.vfp_table \in [n.nodes -> {0, 1}]
                                  /\ DOMAIN n.terminal_pressure \subseteq n.nodes}}

\* the production rates of the groups (water, oil, gas) and the ALQ of the wells
NetworkWellState(r1, r2) ==
    [currentProductionGroupRates |->
        [G1 |-> <<RInt(0), RInt(r1), RInt(10)>>, G2 |-> <<RInt(1), RInt(2), RInt(r2)>>],
     ALQ |-> [W1 |-> RInt(4), W2 |-> RInt(8)]]

InitNetwork ==
    /\ schedule \in NetworkSchedules
    /\ \E r1 \in {0, 5}, r2 \in {0, 3} :
          wellState = [p \in Procs |-> NetworkWellState(r1, r2)]
    /\ guide_rate = [has |-> {}]
    /\ call = NoCall

\* the well model computes the pressures of the network nodes
CallComputeNetworkPressures ==
    /\ call = NoCall
    /\ call' = [op |-> "computeNetworkPressures",
                result |-> computeNetworkPressures(schedule.network, wellState[ThisProc])]
    /\ UNCHANGED <<schedule, wellState, guide_rate>>

NextNetwork == CallComputeNetworkPressures

SpecNetwork == InitNetwork /\ [][NextNetwork]_vars

-----------------------------------------------------------------------------
(* Claims about computeNetworkPressures.                                   *)

NetworkComputed == call.op = "computeNetworkPressures" /\ call.result.active
Net == schedule.network

\* the nodes below the root
BelowRoot == {node \in Net.nodes : Net.up[node] # ""}

\* C18 as stated: a node whose uptree branch has no VFP table gets exactly the
\* pressure of its uptree node (50 for a leaf below a root of fixed pressure 50)
C18_NoTablePassThrough ==
    NetworkComputed =>
        \A node \in BelowRoot :
            Net.vfp_table[node] = 0 =>
                call.result.node_pressures[node] = call.result.node_pressures[Net.up[node]]

\* C18, amended: a node without a fixed pressure of its own whose uptree
\* branch has no VFP table gets exactly the pressure of its uptree node,
\* whatever its inflow; a node with a fixed pressure gets that pressure
C18_NoTablePassThroughUnlessFixed ==
    NetworkComputed =>
        \A node \in BelowRoot :
            /\ (Net.vfp_table[node] = 0 /\ node \notin DOMAIN Net.terminal_pressure) =>
                  call.result.node_pressures[node] = call.result.node_pressures[Net.up[node]]
            /\ node \in DOMAIN Net.terminal_pressure =>
                  call.result.node_pressures[node] = Net.terminal_pressure[node]

\* the scenario: a leaf with gas inflow below the root of fixed pressure 50,
\* no table on the branch, leaf pressure 50
C18_Witness ==
    /\ NetworkComputed
    /\ Net.nodes = {FIELD, "G1"}
    /\ Net.vfp_table["G1"] = 0
    /\ "G1" \notin DOMAIN Net.terminal_pressure
    /\ call.result.node_inflows["G1"][Vapour] = RInt(10)
    /\ call.result.node_inflows["G1"][Liquid] = Zero
    /\ call.result.node_pressures[FIELD] = RInt(50)
    /\ call.result.node_pressures["G1"] = RInt(50)

\* the place of a node in the list of pass 1
PlaceOf(node) ==
    CHOOSE i \in 1..Len(call.result.root_to_child_nodes) :
        call.result.root_to_child_nodes[i] = node

\* C19: the list of pass 1 holds every node reachable from the root exactly
\* once, every node after its parent, and pass 3 never reads the pressure of
\* an uptree node before it is assigned
C19_ParentBeforeChild ==
    NetworkComputed =>
        /\ Range(call.result.root_to_child_nodes) = Net.nodes
        /\ Len(call.result.root_to_child_nodes) = Cardinality(Net.nodes)
        /\ \A node \in BelowRoot : PlaceOf(Net.up[node]) < PlaceOf(node)
        /\ call.result.default_reads = {}
        /\ DOMAIN call.result.node_pressures = Net.nodes

\* a node two branches below the root whose pressure is looked up from the
\* looked-up pressure of its uptree node
C19_Witness ==
    /\ NetworkComputed
    /\ \E node \in BelowRoot :
          /\ Net.up[node] \in BelowRoot
          /\ DOMAIN Net.terminal_pressure = {FIELD}
          /\ Net.vfp_table[node] = 1 /\ Net.vfp_table[Net.up[node]] = 1
          /\ call.result.node_pressures[node].thp = call.result.node_pressures[Net.up[node]]
          /\ call.result.node_pressures[Net.up[node]].thp = RInt(50)

\* the nodes of the subtree of a node, the node included
RECURSIVE NetSubtree(_)
NetSubtree(node) ==
    {node} \cup UNION {NetSubtree(c) : c \in Range(Net.down[node])}

\* the sum over the leaves of the subtree of their inflow at position p
LeafInflowSum(node, p) ==
    LET leaves == NetSubtree(node) \cap call.result.leaf_nodes
    IN SumOver(leaves, [leaf \in leaves |-> call.result.node_inflows[leaf][p]])

\* C20: after pass 2 the inflow of every node is the component-wise sum of the
\* inflows of the leaves of its subtree, each counted once, and the inflow a
\* node adds to its uptree node is its complete inflow
C20_InflowIsSumOfLeaves ==
    NetworkComputed =>
        /\ \A node \in Net.nodes : \A p \in 1..3 :
              call.result.node_inflows[node][p] = LeafInflowSum(node, p)
        /\ \A node \in BelowRoot :
              call.result.added[node] = call.result.node_inflows[node]

\* an inner node below the root with two leaves
C20_Witness ==
    /\ NetworkComputed
    /\ "B1" \in Net.nodes
    /\ Range(Net.down["B1"]) = {"G1", "G2"}
    /\ Net.add_gas_lift_gas["G1"]
    /\ call.result.node_inflows["B1"][Vapour]
          = RAdd(call.result.node_inflows["G1"][Vapour], call.result.node_inflows["G2"][Vapour])
    /\ call.result.node_inflows["G2"][Vapour].n > 0
    /\ call.result.node_inflows[FIELD] = call.result.node_inflows["B1"]

-----------------------------------------------------------------------------
(* The walks over the group tree taken one step at a time: the loop of     *)
(* groupChainTopBot, the loop of FractionCalculator::fraction, the         *)
(* recursion of the constraint check towards FIELD and the depth-first     *)
(* recursion of sumWellPhaseRates.  The running call is held in call; pc   *)
(* is "loop" while it runs and "done" when it has returned.  The walks     *)
(* keep the control flow of the code; the values computed on the way (the  *)
(* product of local fractions, the pair of the constraint check, the rates *)
(* summed) are those of fraction, checkGroupConstraintsProd and            *)
(* sumWellPhaseRates above.                                                *)

\* no walk takes more steps than this
MaxWalkSteps == 6

WalkGroupNames == {"FIELD", "G1", "G2", "G3"}

\* pairwise different efficiency factors of the four groups
WalkGefac == [FIELD |-> R(1, 2, 0), G1 |-> R(1, 3, 0), G2 |-> R(1, 5, 0), G3 |-> R(1, 7, 0)]

\* the schedules of the walks: G2 under FIELD or G1, G3 under FIELD, G1 or
\* G2 (trees of depth 1 to 3), W1 in any group below FIELD, W2 in G1
WalkSchedules ==
    {[parent |-> [FIELD |-> "", G1 |-> "FIELD", G2 |-> p2, G3 |-> p3],
      groupOrder |-> <<"G1", "G2", "G3">>, wellOrder |-> <<"W1", "W2">>,
      gefac |-> WalkGefac, wellEfac |-> [W1 |-> R(1, 7, 0), W2 |-> R(9, 1, 1)],
      wellGroup |-> [W1 |-> g1, W2 |-> "G1"],
      isProducer |-> [w \in WellNames |-> TRUE],
      status |-> [w \in WellNames |-> "OPEN"],
      oil_target |-> [g \in WalkGroupNames |-> RInt(100)],
      surface_max_rate |-> [g \in WalkGroupNames |-> RInt(100)],
      prodAvailable |-> [g \in WalkGroupNames |-> g \notin unavailable],
      injAvailable |-> [g \in WalkGroupNames |-> g \notin unavailable],
      isProductionGroup |-> [g \in WalkGroupNames |-> TRUE],
      isInjectionGroup |-> [g \in WalkGroupNames |-> TRUE]] :
        p2 \in {"FIELD", "G1"}, p3 \in {"FIELD", "G1", "G2"},
        g1 \in {"G1", "G2", "G3"}, unavailable \in {{}, {"G2"}}}

\* the well state of a walk: control modes, stored reductions and well rates
WalkWellState(cm) ==
    CheckWellState(cm, WellNames, 1) @@
        [wellRates |-> StoredRates(schedule.isProducer, 1)]

InitWalk ==
    /\ schedule \in WalkSchedules
    /\ \E c0 \in {"NONE", "ORAT"}, c1 \in {"FLD", "ORAT"} :
          wellState = [p \in Procs |->
              WalkWellState([FIELD |-> c0, G1 |-> c1, G2 |-> "FLD", G3 |-> "FLD"])]
    /\ guide_rate = Registry({}, 3, 1, 0)
    /\ call = NoCall

\* a walk is running / has returned
Walking(op) == call.op = op /\ call.pc = "loop"
Returned(op) == call.op = op /\ call.pc = "done"

\* groupChainTopBot, lines 931-942: the initial parent and the first two names
StartGroupChainTopBot(bottom, top) ==
    /\ call = NoCall
    /\ top \in StrictAncestors(bottom)
    /\ call' = [op |-> "groupChainTopBot", pc |-> "loop", bottom |-> bottom, top |-> top,
                parent |-> parent(bottom), chain |-> <<bottom, parent(bottom)>>,
                steps |-> 1, result |-> <<>>]
    /\ UNCHANGED <<schedule, wellState, guide_rate>>

\* one iteration of "while (parent != top)"
StepGroupChainTopBot ==
    /\ Walking("groupChainTopBot")
    /\ call.parent # call.top
    /\ call.steps < MaxWalkSteps
    /\ call' = [call EXCEPT !.parent = parentOfGroup(call.parent),
                            !.chain = Append(@, parentOfGroup(call.parent)),
                            !.steps = @ + 1]
    /\ UNCHANGED <<schedule, wellState, guide_rate>>

\* the loop is left: the chain is reversed and returned
ReturnGroupChainTopBot ==
    /\ Walking("groupChainTopBot")
    /\ call.parent = call.top
    /\ call' = [call EXCEPT !.pc = "done", !.result = Reverse(call.chain)]
    /\ UNCHANGED <<schedule, wellState, guide_rate>>

\* FractionCalculator::fraction, lines 837-838
StartFraction(name, control_group_name, always_include_this) ==
    /\ call = NoCall
    /\ control_group_name \in StrictAncestors(name)
    /\ call' = [op |-> "fraction", pc |-> "loop", name |-> name,
                control_group_name |-> control_group_name,
                always_include_this |-> always_include_this,
                current |-> name, steps |-> 0]
    /\ UNCHANGED <<schedule, wellState, guide_rate>>

\* one iteration of "while (current != control_group_name)"
StepFraction ==
    /\ Walking("fraction")
    /\ call.current # call.control_group_name
    /\ call.steps < MaxWalkSteps
    /\ call' = [call EXCEPT !.current = parent(call.current), !.steps = @ + 1]
    /\ UNCHANGED <<schedule, wellState, guide_rate>>

\* the loop is left
ReturnFraction ==
    /\ Walking("fraction")
    /\ call.current = call.control_group_name
    /\ call' = [call EXCEPT !.pc = "done"]
    /\ UNCHANGED <<schedule, wellState, guide_rate>>

\* checkGroupConstraintsProd is called for a well or group and its parent
StartCheckGroupConstraintsProd(name, rates) ==
    /\ call = NoCall
    /\ call' = [op |-> "checkGroupConstraintsProd", pc |-> "loop", name |-> name,
                group |-> parent(name), rates |-> rates,
                efficiencyFactor |-> OwnEfficiencyFactor(name), steps |-> 1]
    /\ UNCHANGED <<schedule, wellState, guide_rate>>

\* the group of the running check passes the check on to its parent
recursesToParent(ws, group) ==
    /\ currentProductionGroupControl(ws, group) \in {"FLD", "NONE"}
    /\ productionGroupControlAvailable(group)

\* lines 981-1001: the check recurses to the parent group
StepCheckGroupConstraintsProd ==
    /\ Walking("checkGroupConstraintsProd")
    /\ recursesToParent(wellState[ThisProc], call.group)
    /\ call.steps < MaxWalkSteps
    /\ call' = [call EXCEPT
                  !.group = parentOfGroup(call.group),
                  !.efficiencyFactor = RMul(@, getGroupEfficiencyFactor(call.group)),
                  !.steps = @ + 1]
    /\ UNCHANGED <<schedule, wellState, guide_rate>>

\* the recursion has reached the group it stops at: the group is not
\* available for its parent's control or has a control of its own
ReturnCheckGroupConstraintsProd ==
    /\ Walking("checkGroupConstraintsProd")
    /\ ~recursesToParent(wellState[ThisProc], call.group)
    /\ call' = [call EXCEPT !.pc = "done"]
    /\ UNCHANGED <<schedule, wellState, guide_rate>>

\* a frame of the recursion of sumWellPhaseRates: the group and the index of
\* the child group to visit next
Frame(g) == [group |-> g, next |-> 1]

\* sumWellPhaseRates is called for a group
StartSumWellPhaseRates(g, phasePos, injector) ==
    /\ call = NoCall
    /\ call' = [op |-> "sumWellPhaseRates", pc |-> "loop", group |-> g,
                phasePos |-> phasePos, injector |-> injector,
                stack |-> <<Frame(g)>>, visited |-> <<>>, steps |-> 0]
    /\ UNCHANGED <<schedule, wellState, guide_rate>>

\* lines 128-130: the call recurses into the next child group
DescendSumWellPhaseRates ==
    /\ Walking("sumWellPhaseRates")
    /\ call.steps < MaxWalkSteps
    /\ LET top == call.stack[Len(call.stack)]
       IN /\ top.next <= Len(groups(top.group))
          /\ call' = [call EXCEPT !.stack = Append(@, Frame(groups(top.group)[top.next])),
                                  !.steps = @ + 1]
    /\ UNCHANGED <<schedule, wellState, guide_rate>>

\* lines 132-162: the child groups are done; the wells of the group are
\* summed and the call returns to its caller, which goes on to its next child
ReturnSumWellPhaseRates ==
    /\ Walking("sumWellPhaseRates")
    /\ LET depth == Len(call.stack)
           top == call.stack[depth]
       IN /\ top.next > Len(groups(top.group))
          /\ call' =
               IF depth = 1
               THEN [call EXCEPT !.pc = "done", !.stack = <<>>,
                                 !.visited = Append(@, top.group)]
               ELSE [call EXCEPT
                       !.stack = [i \in 1..(depth - 1) |->
                                    IF i < depth - 1 THEN call.stack[i]
                                    ELSE [call.stack[i] EXCEPT !.next = @ + 1]],
                       !.visited = Append(@, top.group)]
    /\ UNCHANGED <<schedule, wellState, guide_rate>>

NextWalk ==
    \/ \E bottom \in Wells \cup Groups, top \in Groups : StartGroupChainTopBot(bottom, top)
    \/ StepGroupChainTopBot
    \/ ReturnGroupChainTopBot
    \/ \E name \in Wells \cup Groups, control_group_name \in Groups, always \in BOOLEAN :
          StartFraction(name, control_group_name, always)
    \/ StepFraction
    \/ ReturnFraction
    \/ \E name \in Wells \cup (Groups \ {FIELD}), rates \in CheckRates(-1) :
          StartCheckGroupConstraintsProd(name, rates)
    \/ StepCheckGroupConstraintsProd
    \/ ReturnCheckGroupConstraintsProd
    \/ \E g \in Groups, phasePos \in PhasePositions :
          StartSumWellPhaseRates(g, phasePos, FALSE)
    \/ DescendSumWellPhaseRates
    \/ ReturnSumWellPhaseRates

\* every step that is enabled is eventually taken: the calls are synchronous
SpecWalk == InitWalk /\ [][NextWalk]_vars /\ WF_vars(NextWalk)

-----------------------------------------------------------------------------
(* Claims about the walks.                                                 *)

\* the name n parent steps above a well or group
RECURSIVE NthParent(_, _)
NthParent(name, n) == IF n = 0 THEN name ELSE NthParent(parent(name), n - 1)

\* the number of groups above a well or group
Depth(name) == Cardinality(StrictAncestors(name))

\* C21: for a group top that is an ancestor of the well or group bottom,
\* groupChainTopBot(bottom, top) starts with top, ends with bottom, every
\* element is the parent of the next one, and read backwards it is the walk
\* bottom, parent(bottom), parent(parent(bottom)), ... up to top
C21_ChainTopToBottom ==
    Returned("groupChainTopBot") =>
        LET chain == call.result
            n == Len(chain)
        IN /\ n = Depth(call.bottom) - Depth(call.top) + 1
           /\ chain[1] = call.top
           /\ chain[n] = call.bottom
           /\ \A i \in 1..(n - 1) : chain[i] = parent(chain[i + 1])
           /\ \A i \in 1..n : chain[n + 1 - i] = NthParent(call.bottom, i - 1)

\* a chain from FIELD down to a well two groups below it has been returned
C21_Witness ==
    /\ Returned("groupChainTopBot")
    /\ hasWell(call.bottom)
    /\ call.top = FIELD
    /\ Len(call.result) = 4

\* the groups of the subtree of g, g included
SubtreeGroups(g) == {h \in Groups : g \in GroupAncestors(h)}

\* the name a walk starts from
WalkStart == IF call.op = "groupChainTopBot" THEN call.bottom ELSE call.name

\* an upward walk has taken no more parent steps than there are groups above
\* the name it started from, which is at most the depth of the tree
UpwardWalkBounded ==
    call.op \in {"groupChainTopBot", "fraction", "checkGroupConstraintsProd"} =>
        call.steps <= Depth(WalkStart)

\* the recursion of sumWellPhaseRates is never deeper than the subtree, has
\* returned from no group twice and, when it is over, from every group of
\* the subtree
TraversalVisitsOnce ==
    call.op = "sumWellPhaseRates" =>
        /\ \A i, j \in 1..Len(call.visited) : call.visited[i] = call.visited[j] => i = j
        /\ Range(call.visited) \subseteq SubtreeGroups(call.group)
        /\ \A i \in 1..Len(call.stack) : call.stack[i].group \notin Range(call.visited)
        /\ \A i \in 2..Len(call.stack) :
              parentOfGroup(call.stack[i].group) = call.stack[i - 1].group
        /\ call.pc = "done" => Range(call.visited) = SubtreeGroups(call.group)

\* the walk that was started has returned
WalkDone == call.op # "none" /\ call.pc = "done"

\* C27: on a finite acyclic group tree every traversal terminates: the
\* depth-first recursion returns after visiting each group of the subtree
\* once, and the upward walks (groupChainTopBot, FractionCalculator::fraction,
\* the recursion of the constraint check) reach the group they stop at after
\* at most tree-depth steps when that group is an ancestor of the start name
C27_EveryWalkTerminates ==
    /\ [](UpwardWalkBounded /\ TraversalVisitsOnce)
    /\ <>WalkDone

\* the recursion over a tree of depth 3 has returned from all four groups, or
\* a constraint check started at a well three groups below FIELD has reached FIELD
C27_Witness ==
    \/ /\ Returned("sumWellPhaseRates")
       /\ call.visited = <<"G3", "G2", "G1", "FIELD">>
    \/ /\ Returned("checkGroupConstraintsProd")
       /\ call.steps = 3
       /\ call.group = FIELD

-----------------------------------------------------------------------------
(* setCmodeGroup.  group_state is the group part of the well state: the    *)
(* controls set through the well state are the ones has_production_control *)
(* looks at.                                                               *)

\* WellState::hasInjectionGroupControl(phase, group)
hasInjectionGroupControl(ws, phase, g) == g \in DOMAIN ws.currentInjectionGroupControl[phase]

\* GroupState::has_production_control(group); the group state handed to
\* setCmodeGroup is the group part of the well state it writes to
has_production_control(ws, g) == g \in DOMAIN ws.currentProductionGroupControl

\* WellState::setCurrentInjectionGroupControl(phase, group, cmode)
setCurrentInjectionGroupControl(ws, phase, g, cmode) ==
    [ws EXCEPT !.currentInjectionGroupControl[phase] = (g :> cmode) @@ @]

\* WellState::setCurrentProductionGroupControl(group, cmode)
setCurrentProductionGroupControl(ws, g, cmode) ==
    [ws EXCEPT !.currentProductionGroupControl = (g :> cmode) @@ @]

\* events.hasEvent(group, GROUP_INJECTION_UPDATE / GROUP_PRODUCTION_UPDATE)
hasEvent(g, event) == g \in schedule.wellgroup_events[event]

\* Group::hasInjectionControl(phase) and Group::injectionControls(phase, summaryState)
hasInjectionControl(g, phase) == <<g, phase>> \in DOMAIN schedule.injectionControls
injectionControls(g, phase) == schedule.injectionControls[<<g, phase>>]

\* Group::productionControls(summaryState)
productionControls(g) == schedule.productionControls[g]

\* schedule[reportStepIdx].gconsale().has(group)
gconsaleHas(g) == g \in schedule.gconsale

\* the loop over a list of phases applying step(ws, phase) in turn
RECURSIVE overPhases(_, _, _, _)
overPhases(kind, ws, group, phases) ==
    IF phases = <<>> THEN ws
    ELSE LET phase == Head(phases)
             next ==
                 IF kind = "default"
                 THEN IF ~hasInjectionGroupControl(ws, phase, group)
                      THEN setCurrentInjectionGroupControl(ws, phase, group, "NONE")
                      ELSE ws
                 ELSE IF ~hasInjectionControl(group, phase)
                      THEN ws
                      ELSE setCurrentInjectionGroupControl(ws, phase, group,
                               injectionControls(group, phase).cmode)
         IN overPhases(kind, next, group, Tail(phases))

\* const Phase all[] = {Phase::WATER, Phase::OIL, Phase::GAS}
all == <<"WATER", "OIL", "GAS">>

\* mutant of defaultControls: NONE is assigned whether or not the group has a control
defaultControlsMutantAlways(ws, group) ==
    [ws EXCEPT !.currentInjectionGroupControl =
                   [ph \in InjectionPhases |-> (group :> "NONE") @@ @[ph]],
               !.currentProductionGroupControl = (group :> "NONE") @@ @]

\* "use NONE as default control"
defaultControls(ws, group) ==
    LET inj == overPhases("default", ws, group, all)
    IN IF ~has_production_control(inj, group)
       THEN setCurrentProductionGroupControl(inj, group, "NONE")
       ELSE inj

\* the declared controls of a group with an update event
declaredControls(ws, group) ==
    LET inj == IF isInjectionGroup(group) /\ hasEvent(group, "GROUP_INJECTION_UPDATE")
               THEN overPhases("declared", ws, group, all)
               ELSE ws
    IN IF isProductionGroup(group) /\ hasEvent(group, "GROUP_PRODUCTION_UPDATE")
       THEN setCurrentProductionGroupControl(inj, group, productionControls(group).cmode)
       ELSE inj

\* mutant of salesControl: the gas-sales declaration is not looked at
salesControlMutantIgnored(ws, group) == ws

\* a group with a gas-sales declaration injects gas under SALE control
salesControl(ws, group) ==
    IF gconsaleHas(group)
    THEN setCurrentInjectionGroupControl(ws, "GAS", group, "SALE")
    ELSE ws

\* setCmodeGroup: the well state after the call for group
RECURSIVE setCmodeGroup(_, _)
setCmodeGroup(group, ws) ==
    LET gs == groups(group)
        afterGroups[i \in 0..Len(gs)] ==
            IF i = 0 THEN ws ELSE setCmodeGroup(gs[i], afterGroups[i - 1])
    IN salesControl(declaredControls(defaultControls(afterGroups[Len(gs)], group), group),
                    group)

-----------------------------------------------------------------------------
(* The updates of the derived group and well quantities from the nupcol    *)
(* snapshot.                                                               *)

\* pu.phase_used[phase] for the phase held at a position of phase_pos
phase_used(phase) == phase_pos(phase) \in PhasePositions

\* mutant of ownVREP: the sum starts from the value stored for the group
ownVREPMutantAccumulates(group, wellStateNupcol, ws) ==
    LET resv[phase \in 0..NumPhases] ==
            IF phase = 0 THEN ws.injectionVREP[group]
            ELSE RAdd(resv[phase - 1],
                      sumWellPhaseRates(wellStateNupcol.wellReservoirRates, group, ws,
                                        phase, FALSE))
    IN [ws EXCEPT !.injectionVREP[group] = resv[NumPhases]]

\* updateVREPForGroups, lines 419-430: the group's own work
ownVREP(group, wellStateNupcol, ws) ==
    LET resv[phase \in 0..NumPhases] ==
            IF phase = 0 THEN Zero
            ELSE RAdd(resv[phase - 1],
                      sumWellPhaseRates(wellStateNupcol.wellReservoirRates, group, ws,
                                        phase, FALSE))
    IN [ws EXCEPT !.injectionVREP[group] = resv[NumPhases]]

\* updateReservoirRatesInjectionGroups, lines 443-454
ownReservoirRates(group, wellStateNupcol, ws) ==
    [ws EXCEPT !.injectionReservoirRates[group] =
        [phase \in PhasePositions |->
            sumWellPhaseRates(wellStateNupcol.wellReservoirRates, group, ws, phase, TRUE)]]

\* mutant of roleSignedRates: the stored sign is kept
roleSignedRatesMutantNoSign(ws, wellName, wellStateNupcol) ==
    IF wellName \in ws.wellMap THEN wellStateNupcol.wellRates[wellName] ELSE ZeroVector

\* updateWellRates, lines 470-483: the rates stored for a well of the group
roleSignedRates(ws, wellName, wellStateNupcol) ==
    IF wellName \in ws.wellMap           \* the well is found on this node
    THEN LET sign == IF ~isInjector(wellName) THEN -1 ELSE 1
         IN [phase \in PhasePositions |->
                RMul(RInt(sign), wellStateNupcol.wellRates[wellName][phase])]
    ELSE ZeroVector

\* updateWellRates, lines 467-485
ownWellRates(group, wellStateNupcol, ws) ==
    LET wl == wells(group)
        after[i \in 0..Len(wl)] ==
            IF i = 0 THEN ws
            ELSE [after[i - 1] EXCEPT !.currentWellRates[wl[i]] =
                                          roleSignedRates(ws, wl[i], wellStateNupcol)]
    IN after[Len(wl)]

\* updateGroupProductionRates, lines 498-504
ownProductionRates(group, wellStateNupcol, ws) ==
    [ws EXCEPT !.productionRates[group] =
        [phase \in PhasePositions |->
            sumWellPhaseRates(wellStateNupcol.wellRates, group, ws, phase, FALSE)]]

\* updateREINForGroups, lines 522-537: import is added to and consumption
\* taken from the gas rate of a group with a gas-consumption declaration
ownREIN(group, wellStateNupcol, ws) ==
    LET rein == [phase \in PhasePositions |->
                    sumWellPhaseRates(wellStateNupcol.wellRates, group, ws, phase, FALSE)]
        gas == phase_pos("GAS")
        adjusted ==
            IF group \in DOMAIN schedule.gconsump /\ phase_used("GAS")
            THEN [rein EXCEPT ![gas] = RSub(RAdd(@, schedule.gconsump[group].import_rate),
                                            schedule.gconsump[group].consumption_rate)]
            ELSE rein
    IN [ws EXCEPT !.injectionREIN[group] = adjusted]

\* the names of the five updates that share the recursion below
GroupUpdates ==
    {"updateVREPForGroups", "updateReservoirRatesInjectionGroups", "updateWellRates",
     "updateGroupProductionRates", "updateREINForGroups"}

\* the work an update does for the group itself
ownUpdate(op, group, wellStateNupcol, ws) ==
    CASE op = "updateVREPForGroups" -> ownVREP(group, wellStateNupcol, ws)
      [] op = "updateReservoirRatesInjectionGroups" -> ownReservoirRates(group, wellStateNupcol, ws)
      [] op = "updateWellRates" -> ownWellRates(group, wellStateNupcol, ws)
      [] op = "updateGroupProductionRates" -> ownProductionRates(group, wellStateNupcol, ws)
      [] op = "updateREINForGroups" -> ownREIN(group, wellStateNupcol, ws)

\* mutant of updateForGroups: the group's own work is done before its subgroups'
RECURSIVE updateForGroupsMutantPreOrder(_, _, _, _)
updateForGroupsMutantPreOrder(op, group, wellStateNupcol, st) ==
    LET gs == groups(group)
        own == [ws |-> ownUpdate(op, group, wellStateNupcol, st.ws),
                order |-> Append(st.order, group)]
        afterGroups[i \in 0..Len(gs)] ==
            IF i = 0 THEN own
            ELSE updateForGroupsMutantPreOrder(op, gs[i], wellStateNupcol, afterGroups[i - 1])
    IN afterGroups[Len(gs)]

\* the recursion the five updates share: the subgroups in the order of
\* group.groups(), then the group itself.  st holds the well state and the
\* groups in the order in which their values were stored
RECURSIVE updateForGroups(_, _, _, _)
updateForGroups(op, group, wellStateNupcol, st) ==
    LET gs == groups(group)
        afterGroups[i \in 0..Len(gs)] ==
            IF i = 0 THEN st
            ELSE updateForGroups(op, gs[i], wellStateNupcol, afterGroups[i - 1])
        sub == afterGroups[Len(gs)]
    IN [ws |-> ownUpdate(op, group, wellStateNupcol, sub.ws),
        order |-> Append(sub.order, group)]

\* the five updates by their names in the source
updateVREPForGroups(group, wellStateNupcol, ws) ==
    updateForGroups("updateVREPForGroups", group, wellStateNupcol, [ws |-> ws, order |-> <<>>])
updateReservoirRatesInjectionGroups(group, wellStateNupcol, ws) ==
    updateForGroups("updateReservoirRatesInjectionGroups", group, wellStateNupcol, [ws |-> ws, order |-> <<>>])
updateWellRates(group, wellStateNupcol, ws) ==
    updateForGroups("updateWellRates", group, wellStateNupcol, [ws |-> ws, order |-> <<>>])
updateGroupProductionRates(group, wellStateNupcol, ws) ==
    updateForGroups("updateGroupProductionRates", group, wellStateNupcol, [ws |-> ws, order |-> <<>>])
updateREINForGroups(group, wellStateNupcol, ws) ==
    updateForGroups("updateREINForGroups", group, wellStateNupcol, [ws |-> ws, order |-> <<>>])

-----------------------------------------------------------------------------
(* updateGuideRatesForInjectionGroups.  GuideRate::compute is not part of  *)
(* this file: a call of it registers the group for the phase; the value    *)
(* passed to it is kept in the list computed.                              *)

\* no exception has been thrown
NoError == [what |-> "none"]

\* OPM_DEFLOG_THROW(std::runtime_error, "GUIDE PHASE RESV not implemented. Group " + group.name(), ...)
ResvNotImplemented(group) ==
    [what |-> "std::runtime_error",
     message |-> <<"GUIDE PHASE RESV not implemented. Group ", group>>]

\* the value passed to compute for the definitions that do not throw
guideRateValue(group, phase, guide_rate_def, ws) ==
    LET injRES == ws.injectionReservoirRates[group]
        less(value, other) ==
            IF phase # other /\ phase_used(other)
            THEN RSub(value, injRES[phase_pos(other)])
            ELSE value
    IN CASE guide_rate_def = "VOID" -> ws.injectionVREP[group]
         [] guide_rate_def = "NETV" ->
                less(less(less(ws.injectionVREP[group], "OIL"), "GAS"), "WATER")
         [] OTHER -> Zero

\* mutant of throwsFor: RESV is let through like RATE
throwsForMutantNever(guide_rate_def) == FALSE

\* the cases of the switch that throw
throwsFor(guide_rate_def) == guide_rate_def = "RESV"

\* the loop over the phases of one group, from the phase at index i on; st
\* holds the registry, the list of computed values and the exception thrown
RECURSIVE guideRatesOfGroup(_, _, _, _)
guideRatesOfGroup(group, ws, st, i) ==
    IF i > Len(all) \/ st.thrown # NoError THEN st
    ELSE LET phase == all[i]
         IN IF ~hasInjectionControl(group, phase)
            THEN guideRatesOfGroup(group, ws, st, i + 1)
            ELSE LET def == injectionControls(group, phase).guide_rate_def
                 IN IF throwsFor(def)
                    THEN [st EXCEPT !.thrown = ResvNotImplemented(group)]
                    ELSE guideRatesOfGroup(group, ws,
                             [st EXCEPT
                                !.guide_rate.hasInj = @ \cup {<<group, phase>>},
                                !.computed = Append(@, [group |-> group, phase |-> phase,
                                    value |-> guideRateValue(group, phase, def, ws)])],
                             i + 1)

\* updateGuideRatesForInjectionGroups: the subgroups first, then the group;
\* an exception ends the call where it is thrown
RECURSIVE updateGuideRatesForInjectionGroups(_, _, _)
updateGuideRatesForInjectionGroups(group, ws, st) ==
    LET gs == groups(group)
        afterGroups[i \in 0..Len(gs)] ==
            IF i = 0 THEN st
            ELSE IF afterGroups[i - 1].thrown # NoError THEN afterGroups[i - 1]
                 ELSE updateGuideRatesForInjectionGroups(gs[i], ws, afterGroups[i - 1])
    IN IF afterGroups[Len(gs)].thrown # NoError THEN afterGroups[Len(gs)]
       ELSE guideRatesOfGroup(group, ws, afterGroups[Len(gs)], 1)

-----------------------------------------------------------------------------
(* Inputs of the updates.                                                  *)

\* the group trees of the update runs: G2 beside G1 (in either order) or under it
UpdateTrees ==
    {[parent |-> [FIELD |-> "", G1 |-> "FIELD", G2 |-> "FIELD"], order |-> <<"G1", "G2">>],
     [parent |-> [FIELD |-> "", G1 |-> "FIELD", G2 |-> "FIELD"], order |-> <<"G2", "G1">>],
     [parent |-> [FIELD |-> "", G1 |-> "FIELD", G2 |-> "G1"], order |-> <<"G1", "G2">>]}

\* the guide-rate definitions of an injection control
GuideRateInjTargets == {"RATE", "VOID", "NETV", "RESV", "POTN", "NO_GUIDE_RATE"}

\* a schedule of an update run.  G1 declares REIN control for water and VREP
\* control for gas, G2 RATE control for gas; every group declares GRAT
\* production control; G1 imports and consumes gas
UpdateSchedule(t, wg, ip, declared, injEvents, prodEvents, sale, def1, def2) ==
    [parent |-> t.parent, groupOrder |-> t.order, wellOrder |-> <<"W1", "W2">>,
     gefac |-> [FIELD |-> R(1, 2, 0), G1 |-> R(1, 3, 0), G2 |-> R(1, 5, 0)],
     wellEfac |-> [W1 |-> R(1, 7, 0), W2 |-> R(9, 1, 1)],
     wellGroup |-> wg, isProducer |-> ip,
     status |-> [w \in WellNames |-> "OPEN"],
     isProductionGroup |-> [g \in GroupNames |-> g # "G1" \/ declared],
     isInjectionGroup |-> [g \in GroupNames |-> g # "G1" \/ declared],
     wellgroup_events |-> [GROUP_INJECTION_UPDATE |-> injEvents,
                           GROUP_PRODUCTION_UPDATE |-> prodEvents],
     injectionControls |->
         (<<"G1", "WATER">> :> [cmode |-> "REIN", guide_rate_def |-> def1])
         @@ (<<"G1", "GAS">> :> [cmode |-> "VREP", guide_rate_def |-> "NETV"])
         @@ (<<"G2", "GAS">> :> [cmode |-> "RATE", guide_rate_def |-> def2]),
     productionControls |-> [g \in GroupNames |-> [cmode |-> "GRAT"]],
     gconsale |-> sale,
     gconsump |-> ("G1" :> [import_rate |-> RInt(5), consumption_rate |-> RInt(2)])]

\* the control modes of the groups of known, taken from cm
KnownControls(cm, known) == [g \in known |-> cm[g]]

\* stale derived quantities left in the state by earlier updates
StaleVector == [p \in PhasePositions |-> RInt(-1)]

\* a well state of an update run: that of a reduction run with reservoir
\* rates and the derived quantities of the other updates
UpdateWellState(cm, grup, place, level) ==
    LET base == ReduceWellState(cm, grup, place, level)
    IN base @@
       [wellReservoirRates |->
            [w \in base.wellMap |->
                [p \in PhasePositions |-> RMul(RInt(3), base.wellRates[w][p])]],
        injectionVREP |-> [g \in GroupNames |-> RInt(-1)],
        injectionReservoirRates |-> [g \in GroupNames |-> StaleVector],
        currentWellRates |-> [w \in WellNames |-> StaleVector],
        productionRates |-> [g \in GroupNames |-> StaleVector],
        injectionREIN |-> [g \in GroupNames |-> StaleVector]]

\* the current state holds the rates of a later iteration than the snapshot
UpdateStates(cm, grup, place) ==
    (ThisProc :> UpdateWellState(cm, grup, place, 2))
    @@ (Nupcol :> UpdateWellState(cm, grup, place, 1))

\* runs about the control modes: events, gas sales and the controls the
\* state holds before the call vary
InitUpdateControls ==
    /\ \E t \in UpdateTrees, declared \in BOOLEAN, injEvents \in {{}, {"G1"}},
          prodEvents \in {{}, {"G1"}}, sale \in {{}, {"G1"}, {"G2"}} :
          schedule = UpdateSchedule(t, [W1 |-> "G1", W2 |-> "G2"],
                                    [W1 |-> TRUE, W2 |-> FALSE], declared,
                                    injEvents, prodEvents, sale, "RATE", "RATE")
    /\ \E c1 \in {"NONE", "ORAT"}, known \in {{}, {"FIELD", "G1"}, GroupNames} :
          wellState = UpdateStates(
              KnownControls([FIELD |-> "NONE", G1 |-> c1, G2 |-> "FLD"], known),
              {}, [owner |-> "p1", present |-> {"p1"}])
    /\ guide_rate = Registry({}, 1, 1, 0)
    /\ call = NoCall

\* runs about the rates: the wells, their roles, where W2 lives and which
\* wells are under group control vary
InitUpdateRates ==
    /\ \E t \in UpdateTrees, wg \in {[W1 |-> "G1", W2 |-> "G2"], [W1 |-> "G2", W2 |-> "G2"]},
          ip \in {[W1 |-> TRUE, W2 |-> TRUE], [W1 |-> TRUE, W2 |-> FALSE]} :
          schedule = UpdateSchedule(t, wg, ip, TRUE, {}, {}, {}, "RATE", "RATE")
    /\ \E c1 \in {"NONE", "ORAT"}, grup \in {{}, {"W1"}},
          place \in {pl \in Placements : pl.owner # "nobody"} :
          wellState = UpdateStates([FIELD |-> "NONE", G1 |-> c1, G2 |-> "FLD"], grup, place)
    /\ \E reg \in {{}, {"G1", "G2"}} : guide_rate = Registry(reg, 1, 1, 0)
    /\ call = NoCall

\* runs about the guide rates of injection groups: the guide-rate
\* definitions of the water control of G1 and of the gas control of G2 vary
InitUpdateGuideRates ==
    /\ \E t \in UpdateTrees, def1 \in GuideRateInjTargets, def2 \in {"RATE", "RESV"} :
          schedule = UpdateSchedule(t, [W1 |-> "G1", W2 |-> "G2"],
                                    [W1 |-> TRUE, W2 |-> FALSE], TRUE, {}, {}, {},
                                    def1, def2)
    /\ wellState = UpdateStates([FIELD |-> "NONE", G1 |-> "ORAT", G2 |-> "FLD"], {},
                                [owner |-> "p1", present |-> {"p1"}])
    /\ guide_rate = Registry({}, 1, 1, 0)
    /\ call = NoCall

InitUpdate == InitUpdateControls \/ InitUpdateRates \/ InitUpdateGuideRates

\* an update is run for the first time, or a second time with the arguments
\* of the first
FirstOrSecond(op, group, injector) ==
    \/ call = NoCall
    \/ call.op = op /\ call.count = 1 /\ call.group = group /\ call.injector = injector

\* the record of a run: the state before it, the vector passed in, the
\* vector and the order of the stores it leaves
RunRecord(op, group, injector, vectorIn, vectorOut, order) ==
    [op |-> op, group |-> group, injector |-> injector,
     count |-> IF call = NoCall THEN 1 ELSE 2,
     before |-> wellState[ThisProc],
     vectorIn |-> vectorIn, groupTargetReduction |-> vectorOut, order |-> order]

\* the well model seeds the current controls of a group and its subtree
RunSetCmodeGroup(group) ==
    /\ FirstOrSecond("setCmodeGroup", group, FALSE)
    /\ wellState' = [wellState EXCEPT ![ThisProc] = setCmodeGroup(group, @)]
    /\ call' = RunRecord("setCmodeGroup", group, FALSE, ZeroVector, ZeroVector, <<>>)
    /\ UNCHANGED <<schedule, guide_rate>>

\* the groups strictly below group
GroupsBelow(group) == {g \in Groups : group \in GroupAncestors(g)} \ {group}

\* the control modes of the subgroups are looked up in both states
ControlsKnown(group) ==
    \A g \in GroupsBelow(group), p \in {ThisProc, Nupcol} :
        /\ has_production_control(wellState[p], g)
        /\ \A ph \in InjectionPhases : hasInjectionGroupControl(wellState[p], ph, g)

\* the well model refreshes the target reductions; the vector it passes is
\* zero, or, the second time, the vector the first run left
RunUpdateGroupTargetReduction(group, injector, reused) ==
    /\ FirstOrSecond("updateGroupTargetReduction", group, injector)
    /\ reused => call # NoCall
    /\ ControlsKnown(group)
    /\ LET vectorIn == IF reused THEN call.groupTargetReduction ELSE ZeroVector
           res == updateGroupTargetReduction(group, injector, wellState[Nupcol],
                                             wellState[ThisProc], vectorIn)
       IN /\ wellState' = [wellState EXCEPT ![ThisProc] = res.ws]
          /\ call' = RunRecord("updateGroupTargetReduction", group, injector,
                               vectorIn, res.red, res.order)
    /\ UNCHANGED <<schedule, guide_rate>>

\* the well model runs one of the five updates for a group and its subtree
RunGroupUpdate(op, group) ==
    /\ FirstOrSecond(op, group, FALSE)
    /\ LET res == updateForGroups(op, group, wellState[Nupcol],
                                  [ws |-> wellState[ThisProc], order |-> <<>>])
       IN /\ wellState' = [wellState EXCEPT ![ThisProc] = res.ws]
          /\ call' = RunRecord(op, group, FALSE, ZeroVector, ZeroVector, res.order)
    /\ UNCHANGED <<schedule, guide_rate>>

RunUpdateVREPForGroups(group) == RunGroupUpdate("updateVREPForGroups", group)
RunUpdateReservoirRatesInjectionGroups(group) ==
    RunGroupUpdate("updateReservoirRatesInjectionGroups", group)
RunUpdateWellRates(group) == RunGroupUpdate("updateWellRates", group)
RunUpdateGroupProductionRates(group) == RunGroupUpdate("updateGroupProductionRates", group)
RunUpdateREINForGroups(group) == RunGroupUpdate("updateREINForGroups", group)

\* the well model refreshes the guide rates of the injection groups; the
\* registrations made before an exception stay
RunUpdateGuideRatesForInjectionGroups(group) ==
    /\ call = NoCall
    /\ LET res == updateGuideRatesForInjectionGroups(group, wellState[ThisProc],
                      [guide_rate |-> guide_rate, computed |-> <<>>, thrown |-> NoError])
       IN /\ guide_rate' = res.guide_rate
          /\ call' = [op |-> "updateGuideRatesForInjectionGroups", group |-> group,
                      count |-> 1, registeredBefore |-> guide_rate.hasInj,
                      computed |-> res.computed, thrown |-> res.thrown]
    /\ UNCHANGED <<schedule, wellState>>

NextUpdate ==
    \/ \E group \in Groups : RunSetCmodeGroup(group)
    \/ \E group \in Groups, injector \in BOOLEAN, reused \in BOOLEAN :
          RunUpdateGroupTargetReduction(group, injector, reused)
    \/ \E group \in Groups : RunUpdateVREPForGroups(group)
    \/ \E group \in Groups : RunUpdateReservoirRatesInjectionGroups(group)
    \/ \E group \in Groups : RunUpdateWellRates(group)
    \/ \E group \in Groups : RunUpdateGroupProductionRates(group)
    \/ \E group \in Groups : RunUpdateREINForGroups(group)
    \/ \E group \in Groups : RunUpdateGuideRatesForInjectionGroups(group)

SpecUpdate == InitUpdate /\ [][NextUpdate]_vars

-----------------------------------------------------------------------------
(* Claims about the updates.                                               *)

\* the update functions that write to the well state
UpdateFunctions == GroupUpdates \cup {"setCmodeGroup", "updateGroupTargetReduction"}

\* an update function has been run a second time with the arguments of the
\* first run, the schedule, the snapshot and the control modes being the same
SecondRun == call.op \in UpdateFunctions /\ call.count = 2

\* C22 as stated: calling an update function a second time with unchanged
\* schedule, nupcol snapshot and control modes leaves the well state as the
\* first call left it
C22_SecondCallChangesNothing ==
    SecondRun => wellState[ThisProc] = call.before

\* C22: calling an update function a second time with unchanged schedule,
\* nupcol snapshot and control modes, and for updateGroupTargetReduction with
\* the vector groupTargetReduction set back to what the first call was given,
\* leaves the well state as the first call left it
C22_SecondCallWithSameVectorChangesNothing ==
    (SecondRun /\ call.vectorIn = ZeroVector) => wellState[ThisProc] = call.before

\* updateGroupTargetReduction has been run twice with a zero vector and has
\* stored a reduction that is not zero
C22_Witness ==
    /\ SecondRun
    /\ call.op = "updateGroupTargetReduction"
    /\ call.vectorIn = ZeroVector
    /\ call.groupTargetReduction # ZeroVector
    /\ \E p \in PhasePositions :
          reductionOf(wellState[ThisProc], call.group, call.injector)[p].n # 0

\* the update functions that are given the nupcol snapshot
SnapshotUpdates == GroupUpdates \cup {"updateGroupTargetReduction"}

\* the well state with its own rates and every derived quantity wiped: what
\* is left are the well map, the ownership and the control modes
Scrub(ws) ==
    [ws EXCEPT !.wellRates = [w \in DOMAIN @ |-> ZeroVector],
               !.wellReservoirRates = [w \in DOMAIN @ |-> ZeroVector],
               !.productionReduction = [g \in DOMAIN @ |-> ZeroVector],
               !.injectionReduction = [g \in DOMAIN @ |-> ZeroVector],
               !.injectionVREP = [g \in DOMAIN @ |-> Zero],
               !.injectionReservoirRates = [g \in DOMAIN @ |-> ZeroVector],
               !.currentWellRates = [w \in DOMAIN @ |-> ZeroVector],
               !.productionRates = [g \in DOMAIN @ |-> ZeroVector],
               !.injectionREIN = [g \in DOMAIN @ |-> ZeroVector]]

\* the product of the efficiency factors of the groups from the well's
\* group up to and including g
PathFactor(w, g) ==
    ProdOver(GroupAncestors(schedule.wellGroup[w]) \ (GroupAncestors(g) \ {g}),
             schedule.gefac)

\* the sum, over the counted wells below g in no particular order, of the
\* rate the table rates holds for the well, weighted and signed
FlatSum(rates, g, ws, phasePos, injector) ==
    LET C == Counted(ws, injector) \cap SubtreeWells(g)
    IN SumOver(C, [w \in C |->
                    RMul(PathFactor(w, g), Contribution(w, rates[w][phasePos], injector))])

\* the reduction of group g computed over the sets of its subgroups and wells
RECURSIVE FlatReduction(_, _, _, _, _)
FlatReduction(g, injector, snapshot, ws, vectorIn) ==
    LET subs == Range(groups(g))
        own == Range(wells(g))
        below == [sg \in subs |-> FlatReduction(sg, injector, snapshot, ws, ZeroVector)]
    IN [p \in PhasePositions |->
          RMul(getGroupEfficiencyFactor(g),
               RAdd(vectorIn[p],
                    RAdd(SumOver(subs, [sg \in subs |->
                                   subGroupContribution(sg, injector, snapshot, ws,
                                                        below[sg], p)]),
                         SumOver(own, [w \in own |->
                                   wellContribution(w, injector, snapshot, ws, p)]))))]

\* two rate vectors hold the same values
SameVector(a, b) == \A p \in PhasePositions : REq(a[p], b[p])

\* what the run of call.op has stored for group g is the value computed
\* from the rates of the snapshot and from the scrubbed state before the run
StoredFromSnapshot(g, snapshot, ws) ==
    LET stored == wellState[ThisProc]
    IN CASE call.op = "updateVREPForGroups" ->
              REq(stored.injectionVREP[g],
                  SumOver(PhasePositions,
                          [p \in PhasePositions |->
                              FlatSum(snapshot.wellReservoirRates, g, ws, p, FALSE)]))
         [] call.op = "updateReservoirRatesInjectionGroups" ->
              SameVector(stored.injectionReservoirRates[g],
                         [p \in PhasePositions |->
                             FlatSum(snapshot.wellReservoirRates, g, ws, p, TRUE)])
         [] call.op = "updateGroupProductionRates" ->
              SameVector(stored.productionRates[g],
                         [p \in PhasePositions |-> FlatSum(snapshot.wellRates, g, ws, p, FALSE)])
         [] call.op = "updateREINForGroups" ->
              SameVector(stored.injectionREIN[g],
                         [p \in PhasePositions |->
                             IF g \in DOMAIN schedule.gconsump /\ p = phase_pos("GAS")
                             THEN RSub(RAdd(FlatSum(snapshot.wellRates, g, ws, p, FALSE),
                                            schedule.gconsump[g].import_rate),
                                       schedule.gconsump[g].consumption_rate)
                             ELSE FlatSum(snapshot.wellRates, g, ws, p, FALSE)])
         [] call.op = "updateWellRates" ->
              \A w \in DirectWells(g) :
                  SameVector(stored.currentWellRates[w],
                             [p \in PhasePositions |->
                                 IF w \notin ws.wellMap THEN Zero
                                 ELSE IF isInjector(w) THEN snapshot.wellRates[w][p]
                                      ELSE RNeg(snapshot.wellRates[w][p])])
         [] call.op = "updateGroupTargetReduction" ->
              SameVector(reductionOf(stored, g, call.injector),
                         FlatReduction(g, call.injector, snapshot, ws,
                                       IF g = call.group THEN call.vectorIn ELSE ZeroVector))

\* after a run, every group of the subtree holds the value computed from
\* the snapshot
AllStoredFromSnapshot ==
    call.op \in SnapshotUpdates =>
        \A g \in SubtreeGroups(call.group) :
            StoredFromSnapshot(g, wellState[Nupcol], Scrub(call.before))

\* C23: an update leaves the snapshot wellStateNupcol (and the schedule and
\* the guide rates) as they were and writes to wellState only; every rate it
\* aggregates is a rate of the snapshot, so that the value stored for each
\* group is the same whatever the order of its sibling groups and whatever
\* rates and derived quantities wellState held before
C23_RatesFromSnapshotOnly ==
    /\ [][call'.op \in SnapshotUpdates =>
             /\ wellState'[Nupcol] = wellState[Nupcol]
             /\ schedule' = schedule /\ guide_rate' = guide_rate]_vars
    /\ []AllStoredFromSnapshot

\* the production rates of FIELD have been refreshed over the siblings G2 and
\* G1, visited in that order, each with a counted producer below it, from a
\* state whose own rates differ from the snapshot's
C23_Witness ==
    /\ call.op = "updateGroupProductionRates"
    /\ call.group = FIELD
    /\ groups(FIELD) = <<"G2", "G1">>
    /\ \A g \in {"G1", "G2"} : wellState[ThisProc].productionRates[g][1].n > 0
    /\ wellState[ThisProc].wellRates # wellState[Nupcol].wellRates
    /\ call.before.productionRates[FIELD] = StaleVector

-----------------------------------------------------------------------------
(* Claims about the effects of the constraint checkers.                    *)

\* the pair a second call with the arguments of the recorded call returns
\* in the state the recorded call has left
SecondCheck ==
    IF call.op = "checkGroupConstraintsProd"
    THEN checkGroupConstraintsProd(call.name, call.group, call.group,
                                   wellState[ThisProc], call.rates, call.efficiencyFactor)
    ELSE checkGroupConstraintsInj(call.name, call.group, call.group,
                                  wellState[ThisProc], call.rates, call.phase,
                                  call.efficiencyFactor)

-----------------------------------------------------------------------------
(* Claims about the guide rates of injection groups.                       *)

\* the injection controls declared in the subtree of group
DeclaredBelow(group) ==
    {gp \in SubtreeGroups(group) \X {"WATER", "OIL", "GAS"} : hasInjectionControl(gp[1], gp[2])}

\* those whose guide-rate definition is RESV
ResvBelow(group) ==
    {gp \in DeclaredBelow(group) : injectionControls(gp[1], gp[2]).guide_rate_def = "RESV"}

\* the group and phase pairs for which the run has called compute
ComputedFor == {<<call.computed[i].group, call.computed[i].phase>> : i \in DOMAIN call.computed}

\* C25: updateGuideRatesForInjectionGroups throws an error naming a group
\* with a RESV guide-rate definition whenever the subtree holds such a group,
\* and then computes and registers no guide rate for a group and phase with
\* that definition; when every definition of the subtree is one of RATE,
\* VOID, NETV, POTN and NO_GUIDE_RATE it throws nothing and computes a guide
\* rate for every declared control
C25_ResvIsFatal ==
    call.op = "updateGuideRatesForInjectionGroups" =>
        LET resv == ResvBelow(call.group)
        IN /\ resv # {} =>
                /\ \E gp \in resv : call.thrown = ResvNotImplemented(gp[1])
                /\ ComputedFor \cap resv = {}
                /\ \A gp \in resv :
                      gp \in guide_rate.hasInj <=> gp \in call.registeredBefore
           /\ resv = {} =>
                /\ call.thrown = NoError
                /\ ComputedFor = DeclaredBelow(call.group)
                /\ DeclaredBelow(call.group) \subseteq guide_rate.hasInj

\* the run for FIELD has computed the two guide rates of G1 and has then
\* thrown at the RESV definition of G2
C25_Witness ==
    /\ call.op = "updateGuideRatesForInjectionGroups"
    /\ call.group = FIELD
    /\ call.thrown = ResvNotImplemented("G2")
    /\ Len(call.computed) = 2
    /\ <<"G1", "WATER">> \in guide_rate.hasInj
    /\ <<"G2", "GAS">> \notin guide_rate.hasInj

-----------------------------------------------------------------------------
(* Claims about the current well rates.                                    *)

\* C26: after updateWellRates the current rates of every well of the subtree
\* hold one entry per active phase; for a well of the state map they are the
\* snapshot's rates for an injector and the negated snapshot's rates for a
\* producer, so that a producer's rates are not negative; for a well absent
\* from the map they are zero
C26_CurrentWellRatesRoleSigned ==
    call.op = "updateWellRates" =>
        \A w \in SubtreeWells(call.group) :
            LET current == wellState[ThisProc].currentWellRates[w]
                snapshot == wellState[Nupcol].wellRates
            IN /\ DOMAIN current = 1..NumPhases
               /\ \A p \in PhasePositions :
                     IF w \notin wellState[ThisProc].wellMap THEN current[p] = Zero
                     ELSE IF isInjector(w) THEN REq(current[p], snapshot[w][p])
                     ELSE /\ REq(current[p], RNeg(snapshot[w][p]))
                          /\ ~RLess(current[p], Zero)

\* the run for FIELD has stored positive rates for the producer W1, whose
\* snapshot rates are negative, and zero rates for W2, absent from the map
C26_Witness ==
    /\ call.op = "updateWellRates"
    /\ call.group = FIELD
    /\ ~isInjector("W1") /\ "W1" \in wellState[ThisProc].wellMap
    /\ wellState[Nupcol].wellRates["W1"][1].n < 0
    /\ wellState[ThisProc].currentWellRates["W1"][1].n > 0
    /\ "W2" \notin wellState[ThisProc].wellMap
    /\ wellState[ThisProc].currentWellRates["W2"] = ZeroVector
    /\ call.before.currentWellRates["W2"] = StaleVector

-----------------------------------------------------------------------------
(* Claims about the order of the stores.                                   *)

\* the recursive updates of the claim
RecursiveUpdates ==
    {"updateGroupTargetReduction", "updateVREPForGroups",
     "updateReservoirRatesInjectionGroups", "updateGroupProductionRates",
     "updateREINForGroups"}

\* the groups strictly below g
DescendantGroups(g) == SubtreeGroups(g) \ {g}

\* C28: when a recursive update returns for a group, a value has been stored
\* once for that group and for every group of its subtree and for no other
\* group, and the value of each group has been stored after the values of
\* all the groups below it
C28_PostOrder ==
    call.op \in RecursiveUpdates =>
        LET order == call.order
        IN /\ {order[i] : i \in DOMAIN order} = SubtreeGroups(call.group)
           /\ Len(order) = Cardinality(SubtreeGroups(call.group))
           /\ order[Len(order)] = call.group
           /\ \A i, j \in DOMAIN order :
                 order[i] \in DescendantGroups(order[j]) => i < j

\* updateREINForGroups has run for FIELD over the chain FIELD - G1 - G2 and
\* has stored G2 first, then G1, then FIELD, replacing the stale values
C28_Witness ==
    /\ call.op = "updateREINForGroups"
    /\ call.group = FIELD
    /\ parentOfGroup("G2") = "G1"
    /\ call.order = <<"G2", "G1", "FIELD">>
    /\ \A g \in Groups : /\ call.before.injectionREIN[g] = StaleVector
                         /\ wellState[ThisProc].injectionREIN[g] # StaleVector

-----------------------------------------------------------------------------
(* Claims about the current control modes.                                 *)

\* the state before and after the recorded run of setCmodeGroup
CmodeBefore == call.before
CmodeAfter == wellState[ThisProc]

\* the call sets the injection control of group g for the phase from the
\* schedule: a declared control with an update event, or a gas-sales declaration
InjectionControlSetFor(g, phase) ==
    \/ isInjectionGroup(g) /\ hasEvent(g, "GROUP_INJECTION_UPDATE")
          /\ hasInjectionControl(g, phase)
    \/ phase = "GAS" /\ gconsaleHas(g)

\* the call sets the production control of group g from the schedule
ProductionControlSetFor(g) ==
    isProductionGroup(g) /\ hasEvent(g, "GROUP_PRODUCTION_UPDATE")

InjectionControlWithoutSales(g, phase) ==
    IF isInjectionGroup(g) /\ hasEvent(g, "GROUP_INJECTION_UPDATE")
          /\ hasInjectionControl(g, phase)
    THEN injectionControls(g, phase).cmode
    ELSE IF hasInjectionGroupControl(CmodeBefore, phase, g)
         THEN CmodeBefore.currentInjectionGroupControl[phase][g]
         ELSE "NONE"

ProductionControlWithoutSales(g) ==
    IF ProductionControlSetFor(g) THEN productionControls(g).cmode
    ELSE IF has_production_control(CmodeBefore, g)
         THEN CmodeBefore.currentProductionGroupControl[g]
         ELSE "NONE"

\* C30: after setCmodeGroup every group of the subtree with a gas-sales
\* declaration has the current gas injection control SALE, whatever control
\* it had and whatever gas injection control it declares; its water and oil
\* injection controls and its production control are those the call leaves
\* without the declaration
C30_SalesGroupsInjectGasUnderSale ==
    call.op = "setCmodeGroup" =>
        \A g \in SubtreeGroups(call.group) :
            gconsaleHas(g) =>
                /\ CmodeAfter.currentInjectionGroupControl["GAS"][g] = "SALE"
                /\ \A phase \in {"WATER", "OIL"} :
                      CmodeAfter.currentInjectionGroupControl[phase][g]
                        = InjectionControlWithoutSales(g, phase)
                /\ CmodeAfter.currentProductionGroupControl[g]
                      = ProductionControlWithoutSales(g)

\* G1 declares gas sales and, with an update event, VREP control for gas and
\* REIN control for water; it held a gas control before the call: its gas
\* control is SALE, its water control REIN, its production control as before
C30_Witness ==
    /\ call.op = "setCmodeGroup" /\ call.count = 1
    /\ call.group = FIELD
    /\ gconsaleHas("G1")
    /\ isInjectionGroup("G1") /\ hasEvent("G1", "GROUP_INJECTION_UPDATE")
    /\ injectionControls("G1", "GAS").cmode = "VREP"
    /\ hasInjectionGroupControl(CmodeBefore, "GAS", "G1")
    /\ CmodeBefore.currentInjectionGroupControl["GAS"]["G1"] # "SALE"
    /\ CmodeAfter.currentInjectionGroupControl["GAS"]["G1"] = "SALE"
    /\ CmodeAfter.currentInjectionGroupControl["WATER"]["G1"] = "REIN"
    /\ ~ProductionControlSetFor("G1")
    /\ CmodeAfter.currentProductionGroupControl["G1"]
          = CmodeBefore.currentProductionGroupControl["G1"]

====
